---- MODULE Spec2Model ----
(***************************************************************************)
(* A model of RenderHelp (RenderHelp.h): the Bitmap frame buffer, the 1/w  *)
(* depth buffer, the render state and DrawPrimitive, the triangle          *)
(* rasterizer.                                                             *)
(*                                                                         *)
(* Numbers.  The C++ float values are modelled as exact rationals          *)
(* <<n, d>> (d > 0, lowest terms); the int values are integers.  The       *)
(* vertex shader outputs are drawn from integer homogeneous coordinates,   *)
(* so the perspective divide and the viewport mapping are dyadic values    *)
(* that a float holds exactly when w is a power of two.  A uint32_t colour *)
(* 0xAARRGGBB is the pair of its 16-bit halves <<0xAARR, 0xGGBB>>.         *)
(***************************************************************************)
EXTENDS Integers, Sequences, FiniteSets, TLC

VARIABLES
    _frame_buffer,    \* NULL, or the Bitmap [w, h, bits], bits[<<x, y>>] a colour
    _depth_buffer,    \* NULL, or the rows of floats as [<<x, y>> |-> rhw]
    _fb_width,
    _fb_height,
    _color_fg,
    _color_bg,
    _render_frame,
    _render_pixel,
    _vertex_shader,   \* NULL or a std::function, <<its name>>
    _pixel_shader,    \* NULL or a std::function, <<its name>>
    _vertex,          \* the ShaderContext of _vertex[0 .. 2], as <<1, 2, 3>>
    shade,            \* history: the shader calls of the last call, when it was DrawPrimitive
    life,             \* history: the last of the constructor, Init and Reset, with its arguments,
                      \* and for Init whether there were buffers and a vertex shader before
    trace,            \* history: what the last call did, when it was DrawPrimitive
    maxrhw,           \* history: per pixel, the largest rhw that passed coverage since Clear
    ndraw             \* history: DrawPrimitive calls made so far

vars == <<_frame_buffer, _depth_buffer, _fb_width, _fb_height, _color_fg,
          _color_bg, _render_frame, _render_pixel, _vertex_shader,
          _pixel_shader, _vertex, shade, life, trace, maxrhw, ndraw>>

NULL == <<>>

-----------------------------------------------------------------------------
(* Bounds of the model *)

\* width and height handed to the constructor
FbW == 4
FbH == 4
\* DrawPrimitive calls in one behaviour: of the rasterizer's life, of the
\* behaviours that draw over what was drawn, of those that draw one triangle
MaxDraws == 1
DepthDraws == 2
RasterDraws == 1
VaryDraws == 2
\* pixel shader colour channels are multiples of 1/ColorDen
ColorDen == 4

-----------------------------------------------------------------------------
(* float arithmetic, as exact rationals *)

RECURSIVE Gcd(_, _)
Gcd(a, b) == IF b = 0 THEN a ELSE Gcd(b, a % b)

IAbs(i) == IF i < 0 THEN -i ELSE i

\* the rational n/d (d # 0) in lowest terms with a positive denominator
Rat(n, d) ==
    LET g == Gcd(IAbs(n), IAbs(d))
        s == IF d < 0 THEN -1 ELSE 1
    IN  <<(s * n) \div g, (s * d) \div g>>

RInt(i) == <<i, 1>>
RZero == <<0, 1>>
ROne == <<1, 1>>
RHalf == <<1, 2>>

RAdd(a, b) == Rat(a[1] * b[2] + b[1] * a[2], a[2] * b[2])
RSub(a, b) == Rat(a[1] * b[2] - b[1] * a[2], a[2] * b[2])
RMul(a, b) == Rat(a[1] * b[1], a[2] * b[2])
RInv(a) == Rat(a[2], a[1])
RLt(a, b) == a[1] * b[2] < b[1] * a[2]
RLe(a, b) == a[1] * b[2] <= b[1] * a[2]
RNeg(a) == <<-a[1], a[2]>>

\* the C++ conversion (int)f: truncation towards zero
ToInt(a) == IF a[1] >= 0 THEN a[1] \div a[2] ELSE -((-a[1]) \div a[2])

\* floor, for stating claims
RFloor(a) == a[1] \div a[2]

-----------------------------------------------------------------------------
(* tool functions *)

Abs(x) == IF RLt(x, RZero) THEN RNeg(x) ELSE x
Max(x, y) == IF x < y THEN y ELSE x
Min(x, y) == IF x > y THEN y ELSE x
Between(xmin, xmax, x) == Min(Max(xmin, x), xmax)

\* vector_cross of two 2-vectors of floats
vector_cross(a, b) == RSub(RMul(a[1], b[2]), RMul(a[2], b[1]))

\* vector_cross of two 2-vectors of ints
vector_cross_i(a, b) == a[1] * b[2] - a[2] * b[1]

-----------------------------------------------------------------------------
(* colours *)

\* a channel rounded to the nearest byte
ColorByteRounded(c) == Between(0, 255, ToInt(RAdd(RMul(c, RInt(255)), RHalf)))

\* one channel of vector_to_color: "(int)(color.x * 255.0f)", then Between
ColorByte(c) == Between(0, 255, ToInt(RMul(c, RInt(255))))

\* the layout 0xRRGGBBAA
PackColorAlphaLast(a, r, g, b) == <<r * 256 + g, b * 256 + a>>

\* the uint32_t (a << 24) | (r << 16) | (g << 8) | b, as <<high half, low half>>
PackColor(a, r, g, b) == <<a * 256 + r, g * 256 + b>>

\* color = <<r, g, b, a>>, a Vec4f
vector_to_color(color) ==
    LET r == ColorByte(color[1])
        g == ColorByte(color[2])
        b == ColorByte(color[3])
        a == ColorByte(color[4])
    IN  PackColor(a, r, g, b)

\* the Vec3f overload: color.xyz1()
vector_to_color3(color) == vector_to_color(<<color[1], color[2], color[3], ROne>>)

\* 0xffffffff and 0xff191970, the colours Reset sets
DefaultFG == <<65535, 65535>>
DefaultBG == <<65305, 6512>>

-----------------------------------------------------------------------------
(* Bitmap *)

Pixels(w, h) == (0 .. w - 1) \X (0 .. h - 1)

\* Bitmap(width, height): Fill(0)
NewBitmap(w, h) == [w |-> w, h |-> h, bits |-> [p \in Pixels(w, h) |-> <<0, 0>>]]

Bitmap_Fill(bmp, color) == [bmp EXCEPT !.bits = [p \in Pixels(bmp.w, bmp.h) |-> color]]

Bitmap_SetPixel(bmp, x, y, color) ==
    IF x >= 0 /\ x < bmp.w /\ y >= 0 /\ y < bmp.h
    THEN [bmp EXCEPT !.bits[<<x, y>>] = color]
    ELSE bmp

\* the loop "for (y = y1; y != y2; y += inc) SetPixel(x1, y)" of a vertical line,
\* as the set of points handed to SetPixel
RECURSIVE LineV(_, _, _, _)
LineV(x, y, y2, inc) ==
    IF y = y2 THEN {} ELSE {<<x, y>>} \cup LineV(x, y + inc, y2, inc)

RECURSIVE LineH(_, _, _, _)
LineH(x, y, x2, inc) ==
    IF x = x2 THEN {} ELSE {<<x, y>>} \cup LineH(x + inc, y, x2, inc)

\* the loop over x without the SetPixel that follows the step of y
RECURSIVE LineXOnePerColumn(_, _, _, _, _, _, _)
LineXOnePerColumn(x, y, x2, rem, dx, dy, sy) ==
    IF x > x2 THEN {}
    ELSE LET r == rem + dy
         IN  IF r >= dx
             THEN {<<x, y>>} \cup LineXOnePerColumn(x + 1, y + sy, x2, r - dx, dx, dy, sy)
             ELSE {<<x, y>>} \cup LineXOnePerColumn(x + 1, y, x2, r, dx, dy, sy)

\* the loop over x of a line with dx >= dy (x1 <= x2 after the swap)
RECURSIVE LineX(_, _, _, _, _, _, _)
LineX(x, y, x2, rem, dx, dy, sy) ==
    IF x > x2 THEN {}
    ELSE LET r == rem + dy
         IN  IF r >= dx
             THEN {<<x, y>>, <<x, y + sy>>}
                      \cup LineX(x + 1, y + sy, x2, r - dx, dx, dy, sy)
             ELSE {<<x, y>>} \cup LineX(x + 1, y, x2, r, dx, dy, sy)

\* the loop over y of a line with dx < dy (y1 <= y2 after the swap)
RECURSIVE LineY(_, _, _, _, _, _, _)
LineY(x, y, y2, rem, dx, dy, sx) ==
    IF y > y2 THEN {}
    ELSE LET r == rem + dx
         IN  IF r >= dy
             THEN {<<x, y>>, <<x + sx, y>>}
                      \cup LineY(x + sx, y + 1, y2, r - dy, dx, dy, sx)
             ELSE {<<x, y>>} \cup LineY(x, y + 1, y2, r, dx, dy, sx)

\* every (x, y) that Bitmap::DrawLine hands to SetPixel
LinePoints(x1, y1, x2, y2) ==
    IF x1 = x2 /\ y1 = y2 THEN {<<x1, y1>>}
    ELSE IF x1 = x2
    THEN LineV(x1, y1, y2, IF y1 <= y2 THEN 1 ELSE -1) \cup {<<x2, y2>>}
    ELSE IF y1 = y2
    THEN LineH(x1, y1, x2, IF x1 <= x2 THEN 1 ELSE -1) \cup {<<x2, y2>>}
    ELSE LET dx == IF x1 < x2 THEN x2 - x1 ELSE x1 - x2
             dy == IF y1 < y2 THEN y2 - y1 ELSE y1 - y2
         IN  IF dx >= dy
             THEN LET sw == x2 < x1
                      ax == IF sw THEN x2 ELSE x1
                      ay == IF sw THEN y2 ELSE y1
                      bx == IF sw THEN x1 ELSE x2
                      by == IF sw THEN y1 ELSE y2
                  IN  LineX(ax, ay, bx, 0, dx, dy, IF by >= ay THEN 1 ELSE -1)
                          \cup {<<bx, by>>}
             ELSE LET sw == y2 < y1
                      ax == IF sw THEN x2 ELSE x1
                      ay == IF sw THEN y2 ELSE y1
                      bx == IF sw THEN x1 ELSE x2
                      by == IF sw THEN y1 ELSE y2
                  IN  LineY(ax, ay, by, 0, dx, dy, IF bx >= ax THEN 1 ELSE -1)
                          \cup {<<bx, by>>}

\* Bitmap::DrawLine: every point of the line goes through SetPixel's bounds check
Bitmap_DrawLine(bmp, x1, y1, x2, y2, color) ==
    LET pts == LinePoints(x1, y1, x2, y2)
    IN  [bmp EXCEPT !.bits = [p \in Pixels(bmp.w, bmp.h) |->
                                 IF p \in pts THEN color ELSE bmp.bits[p]]]

-----------------------------------------------------------------------------
(* DrawPrimitive: the vertex stage *)

\* a snap that drops the fraction of spf
SnapTruncated(rhw, ndc, spf) ==
    [ok |-> TRUE, rhw |-> rhw, pos |-> ndc, spf |-> spf,
     spi |-> <<ToInt(spf[1]), ToInt(spf[2])>>]

\* spi and the vertex record, from spf
Snap(rhw, ndc, spf) ==
    [ok |-> TRUE, rhw |-> rhw, pos |-> ndc, spf |-> spf,
     spi |-> <<ToInt(RAdd(spf[1], RHalf)), ToInt(RAdd(spf[2], RHalf))>>]

\* a viewport with y up
ViewportUnflipped(rhw, ndc, width, height) ==
    Snap(rhw, ndc, <<RMul(RMul(RAdd(ndc[1], ROne), RInt(width)), RHalf),
                     RMul(RMul(RAdd(ndc[2], ROne), RInt(height)), RHalf)>>)

\* spf, from the position after the divide
Viewport(rhw, ndc, width, height) ==
    Snap(rhw, ndc, <<RMul(RMul(RAdd(ndc[1], ROne), RInt(width)), RHalf),
                     RMul(RMul(RSub(ROne, ndc[2]), RInt(height)), RHalf)>>)

\* a divide that keeps 1 - z / w as the depth of the vertex
DivideDepthOfZ(pos, rhw, width, height) ==
    Viewport(RSub(ROne, RMul(RMul(pos[3], rhw), RHalf)),
             <<RMul(pos[1], rhw), RMul(pos[2], rhw),
               RMul(pos[3], rhw), RMul(pos[4], rhw)>>, width, height)

\* "vertex.pos *= vertex.rhw"
Divide(pos, rhw, width, height) ==
    Viewport(rhw, <<RMul(pos[1], rhw), RMul(pos[2], rhw),
                    RMul(pos[3], rhw), RMul(pos[4], rhw)>>, width, height)

\* a trivial reject without the test of the right plane
RejectedNoRight(pos) ==
    \/ pos[4] = RZero
    \/ RLt(pos[3], RZero) \/ RLt(pos[4], pos[3])
    \/ RLt(pos[1], RNeg(pos[4]))
    \/ RLt(pos[2], RNeg(pos[4])) \/ RLt(pos[4], pos[2])

\* the trivial reject of one vertex, pos = <<x, y, z, w>>
Rejected(pos) ==
    \/ pos[4] = RZero
    \/ RLt(pos[3], RZero) \/ RLt(pos[4], pos[3])
    \/ RLt(pos[1], RNeg(pos[4])) \/ RLt(pos[4], pos[1])
    \/ RLt(pos[2], RNeg(pos[4])) \/ RLt(pos[4], pos[2])

\* One pass of the vertex loop on the position the vertex shader returned:
\* the trivial reject, rhw, the divide by w, the viewport mapping and the snap
\* to the pixel grid.
Vertex(pos, width, height) ==
    IF Rejected(pos) THEN [ok |-> FALSE]
    ELSE Divide(pos, RInv(pos[4]), width, height)

\* The index of the first rejected vertex, 3 when all are accepted: the loop
\* returns at the first reject, so the shader runs for the indices 0 .. this one.
FirstReject(vtx) ==
    IF ~vtx[1].ok THEN 0 ELSE IF ~vtx[2].ok THEN 1 ELSE IF ~vtx[3].ok THEN 2 ELSE 3

\* a box of the first two vertices only
BoundingBoxOfTwo(vtx, width, height) ==
    LET x0 == Between(0, width - 1, vtx[1].spi[1])
        y0 == Between(0, height - 1, vtx[1].spi[2])
    IN  [min_x |-> Between(0, width - 1, Min(x0, vtx[2].spi[1])),
         max_x |-> Between(0, width - 1, Max(x0, vtx[2].spi[1])),
         min_y |-> Between(0, height - 1, Min(y0, vtx[2].spi[2])),
         max_y |-> Between(0, height - 1, Max(y0, vtx[2].spi[2]))]

\* _min_x, _max_x, _min_y, _max_y after the three passes of the loop
BoundingBox(vtx, width, height) ==
    LET x0 == Between(0, width - 1, vtx[1].spi[1])
        y0 == Between(0, height - 1, vtx[1].spi[2])
        b0 == [min_x |-> x0, max_x |-> x0, min_y |-> y0, max_y |-> y0]
        Step(b, v) ==
            [min_x |-> Between(0, width - 1, Min(b.min_x, v.spi[1])),
             max_x |-> Between(0, width - 1, Max(b.max_x, v.spi[1])),
             min_y |-> Between(0, height - 1, Min(b.min_y, v.spi[2])),
             max_y |-> Between(0, height - 1, Max(b.max_y, v.spi[2]))]
    IN  Step(Step(b0, vtx[2]), vtx[3])

\* the three DrawLine calls of the wireframe overlay
DrawWireframe(bmp, vtx, fg) ==
    LET a == vtx[1].spi
        b == vtx[2].spi
        c == vtx[3].spi
        l1 == Bitmap_DrawLine(bmp, a[1], a[2], b[1], b[2], fg)
        l2 == Bitmap_DrawLine(l1, a[1], a[2], c[1], c[2], fg)
    IN  Bitmap_DrawLine(l2, c[1], c[2], b[1], b[2], fg)

\* an overlay that does not read _render_frame
OverlayUnconditional(st, bmp, vtx) == DrawWireframe(bmp, vtx, st.fg)

\* "if (_render_frame) { DrawLine ... }"
Overlay(st, bmp, vtx) == IF st.frame THEN DrawWireframe(bmp, vtx, st.fg) ELSE bmp

\* z of vector_cross(v01, v02) on the positions after the divide
NormalZ(vtx) ==
    vector_cross(
        <<RSub(vtx[2].pos[1], vtx[1].pos[1]), RSub(vtx[2].pos[2], vtx[1].pos[2])>>,
        <<RSub(vtx[3].pos[1], vtx[1].pos[1]), RSub(vtx[3].pos[2], vtx[1].pos[2])>>)

\* no re-orientation: the vertices stay in submission order
ReorderNever(vtx) == vtx

\* vertices 1 and 2 swapped whatever the orientation
ReorderAlways(vtx) == <<vtx[1], vtx[3], vtx[2]>>

\* vtx[0..2], the vertices in the order the fill stage uses them
Reorder(vtx) ==
    IF RLt(RZero, NormalZ(vtx)) THEN <<vtx[1], vtx[3], vtx[2]>> ELSE vtx

\* "Abs(vector_cross(p1 - p0, p2 - p0))" on the integer vertices
ScreenArea(v) ==
    IAbs(vector_cross_i(<<v[2].spi[1] - v[1].spi[1], v[2].spi[2] - v[1].spi[2]>>,
                        <<v[3].spi[1] - v[1].spi[1], v[3].spi[2] - v[1].spi[2]>>))

-----------------------------------------------------------------------------
(* DrawPrimitive: coverage *)

\* a top-left rule that leaves out the top edges
IsTopLeftOnly(a, b) == a[2] > b[2]

\* bool IsTopLeft(const Vec2i& a, const Vec2i& b)
IsTopLeft(a, b) == ((a[2] = b[2]) /\ (a[1] < b[1])) \/ (a[2] > b[2])

\* the edge equation of the edge a -> b at the pixel c
EdgeFn(a, b, c) == -(c[1] - a[1]) * (b[2] - a[2]) + (c[2] - a[2]) * (b[1] - a[1])

\* the edge test without the bias of the edges that are not top-left
EdgePassUnbiased(a, b, c) == ~(EdgeFn(a, b, c) < 0)

\* the test of one edge: "if (E < (TopLeft ? 0 : 1)) continue"
EdgePass(a, b, c) == ~(EdgeFn(a, b, c) < (IF IsTopLeft(a, b) THEN 0 ELSE 1))

\* the pixel c passes the three edge tests of the triangle p0, p1, p2
Covered(p0, p1, p2, c) ==
    /\ EdgePass(p0, p1, c)
    /\ EdgePass(p1, p2, c)
    /\ EdgePass(p2, p0, c)

\* the pixels the two loops over the bounding box visit
Visited(box) == (box.min_x .. box.max_x) \X (box.min_y .. box.max_y)

\* ... and those of them that pass the edge tests; v is in fill order
CoveredPixels(v, box) == {c \in Visited(box) : Covered(v[1].spi, v[2].spi, v[3].spi, c)}

-----------------------------------------------------------------------------
(* DrawPrimitive: barycentric weights, the depth test *)

\* "vtx->spf - px", px the centre of the pixel c
ToPixel(spf, c) ==
    <<RSub(spf[1], RAdd(RInt(c[1]), RHalf)), RSub(spf[2], RAdd(RInt(c[2]), RHalf))>>

AreaSum(a, b, c) == [a |-> a, b |-> b, c |-> c, s |-> RAdd(RAdd(a, b), c)]

SubAreas(s0, s1, s2) ==
    AreaSum(Abs(vector_cross(s1, s2)), Abs(vector_cross(s2, s0)),
            Abs(vector_cross(s0, s1)))

\* a, b, c and s at the centre of the pixel c, before the division by s
Areas(v, c) == SubAreas(ToPixel(v[1].spf, c), ToPixel(v[2].spf, c), ToPixel(v[3].spf, c))

\* the screen-space weights a, b, c (ar.s # 0)
Weights(ar) ==
    <<RMul(ar.a, RInv(ar.s)), RMul(ar.b, RInv(ar.s)), RMul(ar.c, RInv(ar.s))>>

\* the share of the first vertex only
InterpolateFirst(v, wt) == RMul(v[1].rhw, wt[1])

\* the interpolated 1/w, from the weights
Interpolate(v, wt) ==
    RAdd(RAdd(RMul(v[1].rhw, wt[1]), RMul(v[2].rhw, wt[2])), RMul(v[3].rhw, wt[3]))

\* the interpolated 1/w of the pixel c
PixelRhw(v, c) == Interpolate(v, Weights(Areas(v, c)))

\* The covered pixels that are not skipped by "if (s == 0.0f) continue", each
\* with its rhw.
Fragments(v, cov) == [c \in {x \in cov : Areas(v, x).s # RZero} |-> PixelRhw(v, c)]

\* no depth test
DepthRejectNever(rhw, stored) == FALSE

\* a depth test that keeps the farther fragment
DepthRejectNearer(rhw, stored) == RLt(stored, rhw)

\* a depth test that also discards a fragment as near as the stored one
DepthRejectTies(rhw, stored) == RLe(rhw, stored)

\* "if (rhw < _depth_buffer[cy][cx]) continue"
DepthReject(rhw, stored) == RLt(rhw, stored)

\* the fragments that pass the depth test
DepthPass(rhw, db) == {c \in DOMAIN rhw : ~DepthReject(rhw[c], db[c])}

\* the colour passed in, with a pixel shader or without
PixelColorAlways(ps, pscolor) == pscolor

\* the colour the fill stage writes: the pixel shader's, or 0 without one
PixelColor(ps, pscolor) ==
    IF ps # NULL THEN pscolor ELSE <<RZero, RZero, RZero, RZero>>

-----------------------------------------------------------------------------
(* DrawPrimitive *)

\* The rasterizer's fields as one record, so that DrawPrimitive can be applied
\* to the current state and to any other.
Self ==
    [fb |-> _frame_buffer, db |-> _depth_buffer, width |-> _fb_width,
     height |-> _fb_height, fg |-> _color_fg, frame |-> _render_frame,
     pixel |-> _render_pixel, vs |-> _vertex_shader, ps |-> _pixel_shader]

\* The result of a call holds the return value, the buffers after the call
\* and, for the history, how far the call went (stage), the number of vertex
\* shader calls (nvs), the integer vertices in fill order (p), the pixels that
\* passed the edge tests (cov), the interpolated 1/w of those not skipped (rhw),
\* the depth the depth test read for them (read), the pixels that passed the
\* depth test (pass) and those the pixel shader ran for (shaded).

\* a call that returns false
NoFill(st, stage, nvs, fb) ==
    [ret |-> FALSE, stage |-> stage, nvs |-> nvs, fb |-> fb, db |-> st.db,
     p |-> <<>>, cov |-> {}, rhw |-> <<>>, read |-> <<>>, pass |-> {},
     shaded |-> {}]

\* the same without the second overlay
FillWriteOnce(st, vtx, v, fb1, color, cov, rhw, pass) ==
    [ret |-> TRUE, stage |-> "filled", nvs |-> 3,
     fb |-> [fb1 EXCEPT !.bits = [c \in DOMAIN fb1.bits |->
                            IF c \in pass THEN color ELSE fb1.bits[c]]],
     db |-> [c \in DOMAIN st.db |-> IF c \in pass THEN rhw[c] ELSE st.db[c]],
     p |-> <<v[1].spi, v[2].spi, v[3].spi>>, cov |-> cov, rhw |-> rhw,
     read |-> [c \in DOMAIN rhw |-> st.db[c]], pass |-> pass,
     shaded |-> IF st.ps # NULL THEN pass ELSE {}]

\* the writes of the fill loop, the second overlay, "return true"
FillWrite(st, vtx, v, fb1, color, cov, rhw, pass) ==
    [ret |-> TRUE, stage |-> "filled", nvs |-> 3,
     fb |-> Overlay(st, [fb1 EXCEPT !.bits = [c \in DOMAIN fb1.bits |->
                            IF c \in pass THEN color ELSE fb1.bits[c]]], vtx),
     db |-> [c \in DOMAIN st.db |-> IF c \in pass THEN rhw[c] ELSE st.db[c]],
     p |-> <<v[1].spi, v[2].spi, v[3].spi>>, cov |-> cov, rhw |-> rhw,
     read |-> [c \in DOMAIN rhw |-> st.db[c]], pass |-> pass,
     shaded |-> IF st.ps # NULL THEN pass ELSE {}]

\* the same, returning true only when a fragment has been written
FillDepthReportsWrites(st, vtx, v, fb1, pscolor, cov, rhw) ==
    [FillWrite(st, vtx, v, fb1, vector_to_color(PixelColor(st.ps, pscolor)),
               cov, rhw, DepthPass(rhw, st.db))
        EXCEPT !.ret = DepthPass(rhw, st.db) # {}]

\* the depth test of the fragments, then the writes
FillDepth(st, vtx, v, fb1, pscolor, cov, rhw) ==
    FillWrite(st, vtx, v, fb1, vector_to_color(PixelColor(st.ps, pscolor)),
              cov, rhw, DepthPass(rhw, st.db))

FillCovered(st, vtx, v, fb1, pscolor, cov) ==
    FillDepth(st, vtx, v, fb1, pscolor, cov, Fragments(v, cov))

\* The fill stage, on the frame buffer fb1 the first overlay left.  v are the
\* vertices in fill order, vtx in submission order.
Fill(st, vtx, v, fb1, pscolor) ==
    FillCovered(st, vtx, v, fb1, pscolor,
                CoveredPixels(v, BoundingBox(vtx, st.width, st.height)))

\* from the area test on
Oriented(st, vtx, v, fb1, pscolor) ==
    IF ScreenArea(v) <= 0 THEN NoFill(st, "zeroarea", 3, fb1)
    ELSE Fill(st, vtx, v, fb1, pscolor)

\* the same with the normal.z reject ahead of the first overlay
OverlaidAfterReject(st, vtx, fb1, pscolor) ==
    IF st.pixel = FALSE THEN NoFill(st, "nofill", 3, fb1)
    ELSE IF NormalZ(vtx) = RZero THEN NoFill(st, "degenerate", 3, st.fb)
    ELSE Oriented(st, vtx, Reorder(vtx), fb1, pscolor)

\* the same without the test of _render_pixel
OverlaidAlwaysFilled(st, vtx, fb1, pscolor) ==
    IF NormalZ(vtx) = RZero THEN NoFill(st, "degenerate", 3, fb1)
    ELSE Oriented(st, vtx, Reorder(vtx), fb1, pscolor)

\* from "if (_render_pixel == false) return false" on
Overlaid(st, vtx, fb1, pscolor) ==
    IF st.pixel = FALSE THEN NoFill(st, "nofill", 3, fb1)
    ELSE IF NormalZ(vtx) = RZero THEN NoFill(st, "degenerate", 3, fb1)
    ELSE Oriented(st, vtx, Reorder(vtx), fb1, pscolor)

\* from the end of the vertex loop on
Assembled(st, vtx, pscolor) ==
    IF FirstReject(vtx) < 3 THEN NoFill(st, "reject", FirstReject(vtx) + 1, st.fb)
    ELSE Overlaid(st, vtx, Overlay(st, st.fb, vtx), pscolor)

\* DrawPrimitive without the test of the vertex shader
DrawPrimitiveOnUnchecked(st, vsout, pscolor) ==
    IF st.fb = NULL THEN NoFill(st, "precondition", 0, st.fb)
    ELSE Assembled(st, <<Vertex(vsout[1], st.width, st.height),
                         Vertex(vsout[2], st.width, st.height),
                         Vertex(vsout[3], st.width, st.height)>>, pscolor)

\* bool DrawPrimitive(), on the rasterizer st, when the vertex shader returns
\* the positions vsout[1..3] for the indices 0..2 and the pixel shader pscolor.
DrawPrimitiveOn(st, vsout, pscolor) ==
    IF st.fb = NULL \/ st.vs = NULL THEN NoFill(st, "precondition", 0, st.fb)
    ELSE Assembled(st, <<Vertex(vsout[1], st.width, st.height),
                         Vertex(vsout[2], st.width, st.height),
                         Vertex(vsout[3], st.width, st.height)>>, pscolor)

\* maxrhw after a call with the result r
MaxRhwAfter(r) ==
    IF maxrhw = NULL THEN NULL
    ELSE [c \in DOMAIN maxrhw |->
             IF c \in DOMAIN r.rhw /\ RLt(maxrhw[c], r.rhw[c])
             THEN r.rhw[c] ELSE maxrhw[c]]

-----------------------------------------------------------------------------
(* DrawPrimitive: the shaders and their contexts *)

\* the four maps of a ShaderContext
Kinds == {"varying_float", "varying_vec2f", "varying_vec3f", "varying_vec4f"}

\* the number of floats of a value of each kind; a float is <<x>>
Dim(kind) ==
    IF kind = "varying_float" THEN 1
    ELSE IF kind = "varying_vec2f" THEN 2
    ELSE IF kind = "varying_vec3f" THEN 3 ELSE 4

\* a ShaderContext is the function that gives the map of each kind, a map the
\* function from its keys to their values
EmptyContext == [kind \in Kinds |-> <<>>]

\* a context that is not cleared
ClearContextSkipped(ctx) == ctx

\* the four clear() calls on the context of a vertex
ClearContext(ctx) == [kind \in Kinds |-> <<>>]

\* What the vertex shader does to the context it is given: out holds the
\* varyings it assigns.
VSWrite(ctx, out) ==
    [kind \in Kinds |->
        [key \in (DOMAIN ctx[kind]) \cup (DOMAIN out[kind]) |->
            IF key \in DOMAIN out[kind] THEN out[kind][key] ELSE ctx[kind][key]]]

\* The contexts after the vertex loop of a call that made nvs vertex shader
\* calls: ctxs are the contexts before the call, vary what the shader assigns
\* for each index.
VertexContexts(ctxs, vary, nvs) ==
    [k \in 1 .. 3 |->
        IF k <= nvs THEN VSWrite(ClearContext(ctxs[k]), vary[k]) ELSE ctxs[k]]

\* The vertex shader calls, in order: the index passed and the context the
\* shader was given.
VertexCalls(ctxs, nvs) ==
    [k \in 1 .. nvs |-> [index |-> k - 1, seen |-> ClearContext(ctxs[k])]]

\* a value-initialized float, Vec2f, Vec3f or Vec4f
ZeroValue(kind) == [i \in 1 .. Dim(kind) |-> RZero]

\* "i1.varying_float[key]": std::map::operator[] on a map that may lack the key
MapRead(map, key, kind) == IF key \in DOMAIN map THEN map[key] ELSE ZeroValue(kind)

\* ... and the map after it
MapTouch(map, keys, kind) ==
    [key \in (DOMAIN map) \cup keys |-> MapRead(map, key, kind)]

\* "c0 * f0 + c1 * f1 + c2 * f2"
Mix(cw, f0, f1, f2) ==
    [i \in DOMAIN f0 |->
        RAdd(RAdd(RMul(cw[1], f0[i]), RMul(cw[2], f1[i])), RMul(cw[3], f2[i]))]

\* weights without the factor w
PerspectiveUndivided(v, wt, rhw) ==
    <<RMul(v[1].rhw, wt[1]), RMul(v[2].rhw, wt[2]), RMul(v[3].rhw, wt[3])>>

\* c0, c1, c2 from the screen-space weights wt and the interpolated rhw
Perspective(v, wt, rhw) ==
    LET w == RInv(IF rhw # RZero THEN rhw ELSE ROne)
    IN  <<RMul(RMul(v[1].rhw, wt[1]), w), RMul(RMul(v[2].rhw, wt[2]), w),
          RMul(RMul(v[3].rhw, wt[3]), w)>>

\* c0, c1, c2 at the pixel c
PixelWeights(v, wt) == Perspective(v, wt, Interpolate(v, wt))

\* an interpolation over the keys of all three contexts
VaryingsAllKeys(cw, i0, i1, i2) ==
    [kind \in Kinds |->
        [key \in (DOMAIN i0[kind]) \cup (DOMAIN i1[kind]) \cup (DOMAIN i2[kind]) |->
            Mix(cw, MapRead(i0[kind], key, kind), MapRead(i1[kind], key, kind),
                MapRead(i2[kind], key, kind))]]

\* the ShaderContext input of a fragment, from c0, c1, c2 and the contexts
\* i0, i1, i2 of vtx[0], vtx[1], vtx[2]
Varyings(cw, i0, i1, i2) ==
    [kind \in Kinds |->
        [key \in DOMAIN i0[kind] |->
            Mix(cw, i0[kind][key], MapRead(i1[kind], key, kind),
                MapRead(i2[kind], key, kind))]]

\* a vertex after the vertex loop, with its context
WithContext(vertex, ctx) ==
    [ok |-> vertex.ok, rhw |-> vertex.rhw, pos |-> vertex.pos, spf |-> vertex.spf,
     spi |-> vertex.spi, context |-> ctx]

\* vtx[0..2] of a call that reached the fill loops, with their contexts
FillOrder(st, vsout, ctxs) ==
    Reorder(<<WithContext(Vertex(vsout[1], st.width, st.height), ctxs[1]),
              WithContext(Vertex(vsout[2], st.width, st.height), ctxs[2]),
              WithContext(Vertex(vsout[3], st.width, st.height), ctxs[3])>>)

\* the input of the fragment at the pixel c
PixelInput(v, c) ==
    Varyings(PixelWeights(v, Weights(Areas(v, c))), v[1].context, v[2].context,
             v[3].context)

\* The pixels of a set in the order the two loops visit them: cy from _min_y
\* up, cx from _min_x up.
RECURSIVE ScanOrder(_)
ScanOrder(S) ==
    IF S = {} THEN <<>>
    ELSE LET c == CHOOSE c \in S :
                      \A d \in S : c[2] < d[2] \/ (c[2] = d[2] /\ c[1] <= d[1])
         IN  <<c>> \o ScanOrder(S \ {c})

\* the same steps with the pixel shader call ahead of the depth write
FragmentStepsShaderFirst(ps, c) ==
    (IF ps # NULL THEN <<[do |-> "shader", at |-> c]>> ELSE <<>>)
        \o <<[do |-> "depth", at |-> c], [do |-> "frame", at |-> c]>>

\* What the fill loop does for a fragment that passed the depth test, in
\* order: the depth write, the pixel shader call if there is a pixel shader,
\* the frame buffer write.
FragmentSteps(ps, c) ==
    <<[do |-> "depth", at |-> c]>>
        \o (IF ps # NULL THEN <<[do |-> "shader", at |-> c]>> ELSE <<>>)
        \o <<[do |-> "frame", at |-> c]>>

RECURSIVE FillSteps(_, _)
FillSteps(ps, order) ==
    IF order = <<>> THEN <<>>
    ELSE FragmentSteps(ps, Head(order)) \o FillSteps(ps, Tail(order))

\* The contexts after the fill loops: once a fragment has passed the depth
\* test, the reads of i1 and i2 have added the keys of i0 that they lacked.
FilledContexts(ctxs, pass) ==
    IF pass = {} THEN ctxs
    ELSE [k \in 1 .. 3 |->
             IF k = 1 THEN ctxs[1]
             ELSE [kind \in Kinds |->
                      MapTouch(ctxs[k][kind], DOMAIN ctxs[1][kind], kind)]]

\* the inputs of the pixel shader calls of a call that reached the fill loops
PixelInputs(v, shaded) == [c \in shaded |-> PixelInput(v, c)]

\* the contexts and the shader calls of a call with the result r, from the
\* contexts ctxs the vertex loop left
ShaderCalls(st, r, vsout, vary, before, ctxs) ==
    /\ _vertex' = FilledContexts(ctxs, r.pass)
    /\ shade' = [vary |-> vary, before |-> before,
                 vs |-> VertexCalls(before, r.nvs),
                 input |-> IF r.shaded = {} THEN <<>>
                           ELSE PixelInputs(FillOrder(st, vsout, ctxs), r.shaded),
                 log |-> FillSteps(st.ps, ScanOrder(r.pass))]

\* the state after a call with the result r
Drawn(r, vsout, pscolor) ==
    /\ _frame_buffer' = r.fb
    /\ _depth_buffer' = r.db
    /\ trace' = [op |-> "draw", vsout |-> vsout, pscolor |-> pscolor,
                 ret |-> r.ret, stage |-> r.stage, nvs |-> r.nvs,
                 p |-> r.p, cov |-> r.cov, rhw |-> r.rhw, read |-> r.read,
                 pass |-> r.pass, shaded |-> r.shaded]
    /\ maxrhw' = MaxRhwAfter(r)

\* One call of DrawPrimitive: the vertex shader returns one of tris and assigns
\* one of varys, the pixel shader returns one of colors.
DrawPrimitiveWith(tris, varys, colors, maxd) ==
    /\ ndraw < maxd
    /\ \E vsout \in tris, vary \in varys, pscolor \in colors :
          \E r \in {DrawPrimitiveOn(Self, vsout, pscolor)} :
              /\ Drawn(r, vsout, pscolor)
              /\ ShaderCalls(Self, r, vsout, vary, _vertex,
                             VertexContexts(_vertex, vary, r.nvs))
    /\ ndraw' = ndraw + 1
    /\ UNCHANGED <<_fb_width, _fb_height, _color_fg, _color_bg, _render_frame,
                   _render_pixel, _vertex_shader, _pixel_shader, life>>

\* a vertex shader that assigns no varying
NoVaryings == <<EmptyContext, EmptyContext, EmptyContext>>

\* One call of DrawPrimitive with such a vertex shader
DrawPrimitive(tris, colors, maxd) ==
    DrawPrimitiveWith(tris, {NoVaryings}, colors, maxd)

-----------------------------------------------------------------------------
(* the other operations *)

\* the history of a call: the draws record what they did, Reset, Init and Clear
\* their names, the setters nothing
NoTrace == [op |-> "none"]
Called(op) == [op |-> op]
NoShade == [vary |-> <<>>, before |-> <<>>, vs |-> <<>>, input |-> <<>>, log |-> <<>>]

\* a Reset that leaves the depth buffer
ResetFrameOnly ==
    /\ _vertex_shader' = NULL
    /\ _pixel_shader' = NULL
    /\ _frame_buffer' = NULL
    /\ _color_fg' = DefaultFG
    /\ _color_bg' = DefaultBG
    /\ trace' = Called("Reset")
    /\ shade' = NoShade
    /\ life' = [op |-> "Reset"]
    /\ UNCHANGED <<_depth_buffer, maxrhw, _vertex>>
    /\ UNCHANGED <<_fb_width, _fb_height, _render_frame, _render_pixel, ndraw>>

\* Reset(): the shaders, both buffers and the two colours
Reset ==
    /\ _vertex_shader' = NULL
    /\ _pixel_shader' = NULL
    /\ _frame_buffer' = NULL
    /\ _depth_buffer' = NULL
    /\ _color_fg' = DefaultFG
    /\ _color_bg' = DefaultBG
    /\ maxrhw' = NULL
    /\ trace' = Called("Reset")
    /\ shade' = NoShade
    /\ life' = [op |-> "Reset"]
    /\ UNCHANGED _vertex
    /\ UNCHANGED <<_fb_width, _fb_height, _render_frame, _render_pixel, ndraw>>

\* a frame buffer filled with the default background colour
ClearedFrameDefault(fb, bg) == IF fb # NULL THEN Bitmap_Fill(fb, DefaultBG) ELSE fb

\* the buffers after Clear()
ClearedFrame(fb, bg) == IF fb # NULL THEN Bitmap_Fill(fb, bg) ELSE fb
ClearedDepth(db) == IF db # NULL THEN [c \in DOMAIN db |-> RZero] ELSE db

\* an Init without the Reset of the shaders and the colours
InitKeepsShaders(width, height) ==
    /\ _fb_width' = width
    /\ _fb_height' = height
    /\ _frame_buffer' = ClearedFrame(NewBitmap(width, height), _color_bg)
    /\ _depth_buffer' = ClearedDepth([c \in Pixels(width, height) |-> RZero])
    /\ maxrhw' = [c \in Pixels(width, height) |-> RZero]
    /\ trace' = Called("Init")
    /\ shade' = NoShade
    /\ life' = [op |-> "Init", width |-> width, height |-> height,
                again |-> (_frame_buffer # NULL /\ _vertex_shader # NULL)]
    /\ UNCHANGED <<_vertex_shader, _pixel_shader, _color_fg, _color_bg, _vertex>>
    /\ UNCHANGED <<_render_frame, _render_pixel, ndraw>>

\* Init(width, height): Reset, new buffers, Clear
Init(width, height) ==
    /\ _vertex_shader' = NULL
    /\ _pixel_shader' = NULL
    /\ _color_fg' = DefaultFG
    /\ _color_bg' = DefaultBG
    /\ _fb_width' = width
    /\ _fb_height' = height
    /\ _frame_buffer' = ClearedFrame(NewBitmap(width, height), DefaultBG)
    /\ _depth_buffer' = ClearedDepth([c \in Pixels(width, height) |-> RZero])
    /\ maxrhw' = [c \in Pixels(width, height) |-> RZero]
    /\ trace' = Called("Init")
    /\ shade' = NoShade
    /\ life' = [op |-> "Init", width |-> width, height |-> height,
                again |-> (_frame_buffer # NULL /\ _vertex_shader # NULL)]
    /\ UNCHANGED _vertex
    /\ UNCHANGED <<_render_frame, _render_pixel, ndraw>>

Clear ==
    /\ _frame_buffer' = ClearedFrame(_frame_buffer, _color_bg)
    /\ _depth_buffer' = ClearedDepth(_depth_buffer)
    /\ maxrhw' = IF _depth_buffer # NULL
                 THEN [c \in DOMAIN _depth_buffer |-> RZero] ELSE maxrhw
    /\ trace' = Called("Clear")
    /\ shade' = NoShade
    /\ UNCHANGED <<_vertex, life>>
    /\ UNCHANGED <<_fb_width, _fb_height, _color_fg, _color_bg, _render_frame,
                   _render_pixel, _vertex_shader, _pixel_shader, ndraw>>

SetVertexShader(vs) ==
    /\ _vertex_shader' = vs
    /\ trace' = NoTrace
    /\ shade' = NoShade
    /\ UNCHANGED <<_vertex, life>>
    /\ UNCHANGED <<_frame_buffer, _depth_buffer, _fb_width, _fb_height, _color_fg,
                   _color_bg, _render_frame, _render_pixel, _pixel_shader,
                   maxrhw, ndraw>>

SetPixelShader(ps) ==
    /\ _pixel_shader' = ps
    /\ trace' = NoTrace
    /\ shade' = NoShade
    /\ UNCHANGED <<_vertex, life>>
    /\ UNCHANGED <<_frame_buffer, _depth_buffer, _fb_width, _fb_height, _color_fg,
                   _color_bg, _render_frame, _render_pixel, _vertex_shader,
                   maxrhw, ndraw>>

SetBGColor(color) ==
    /\ _color_bg' = color
    /\ trace' = NoTrace
    /\ shade' = NoShade
    /\ UNCHANGED <<_vertex, life>>
    /\ UNCHANGED <<_frame_buffer, _depth_buffer, _fb_width, _fb_height, _color_fg,
                   _render_frame, _render_pixel, _vertex_shader, _pixel_shader,
                   maxrhw, ndraw>>

SetFGColor(color) ==
    /\ _color_fg' = color
    /\ trace' = NoTrace
    /\ shade' = NoShade
    /\ UNCHANGED <<_vertex, life>>
    /\ UNCHANGED <<_frame_buffer, _depth_buffer, _fb_width, _fb_height, _color_bg,
                   _render_frame, _render_pixel, _vertex_shader, _pixel_shader,
                   maxrhw, ndraw>>

SetRenderState(frame, pixel) ==
    /\ _render_frame' = frame
    /\ _render_pixel' = pixel
    /\ trace' = NoTrace
    /\ shade' = NoShade
    /\ UNCHANGED <<_vertex, life>>
    /\ UNCHANGED <<_frame_buffer, _depth_buffer, _fb_width, _fb_height, _color_fg,
                   _color_bg, _vertex_shader, _pixel_shader, maxrhw, ndraw>>

-----------------------------------------------------------------------------
(* What the callers pass in *)

\* the position (x, y, z, w) a vertex shader returns
P(x, y, z, w) == <<RInt(x), RInt(y), RInt(z), RInt(w)>>

\* the colour (r, g, b, a) a pixel shader returns, in halves
Halves(r, g, b, a) == <<Rat(r, 2), Rat(g, 2), Rat(b, 2), Rat(a, 2)>>

VSHandles == {NULL, <<"vs">>}
PSHandles == {NULL, <<"ps">>}

\* red, and a colour with channels outside [0, 1]
PSColors == {Halves(2, 0, 0, 2), Halves(4, -2, 1, 2)}

\* 0xff000000 beside the default background, 0xff0000ff beside the default foreground
BGColors == {DefaultBG, <<65280, 0>>}
FGColors == {DefaultFG, <<65280, 255>>}

\* what an uninitialized int or colour field may hold
Indeterminate == {0, 1}

\* Triangles drawn over one another: the upper-left half of the
\* frame at w = 1; the same with a different w at each vertex, in the other
\* winding; the same at w = 2 (farther); the lower-right half with a different
\* w at each vertex; one with a vertex behind the near plane; one whose
\* vertices are collinear.
Tris ==
    { <<P(-1, 1, 0, 1), P(-1, -1, 0, 1), P(1, 1, 0, 1)>>,
      <<P(-1, 1, 0, 1), P(4, 4, 0, 4), P(-2, -2, 0, 2)>>,
      <<P(-2, 2, 1, 2), P(-2, -2, 1, 2), P(2, 2, 1, 2)>>,
      <<P(1, -1, 1, 1), P(-2, -2, 0, 2), P(4, 4, 2, 4)>>,
      <<P(-1, 1, 0, 1), P(0, 0, -1, 1), P(1, 1, 0, 1)>>,
      <<P(-1, 1, 0, 1), P(0, 0, 0, 1), P(1, -1, 0, 1)>> }

-----------------------------------------------------------------------------
(* The rasterizer's life: construction, then any calls *)

\* RenderHelp(): the buffers are NULL, the sizes and colours are not set
DefaultConstructed ==
    /\ _frame_buffer = NULL
    /\ _depth_buffer = NULL
    /\ _render_frame = FALSE
    /\ _render_pixel = TRUE
    /\ _vertex_shader = NULL
    /\ _pixel_shader = NULL
    /\ _fb_width \in Indeterminate
    /\ _fb_height \in Indeterminate
    /\ _color_fg \in FGColors
    /\ _color_bg \in BGColors
    /\ maxrhw = NULL
    /\ _vertex = NoVaryings
    /\ life = [op |-> "RenderHelp()"]

\* RenderHelp(width, height): the same, then Init(width, height)
Constructed(width, height) ==
    /\ _render_frame = FALSE
    /\ _render_pixel = TRUE
    /\ _vertex_shader = NULL
    /\ _pixel_shader = NULL
    /\ _color_fg = DefaultFG
    /\ _color_bg = DefaultBG
    /\ _fb_width = width
    /\ _fb_height = height
    /\ _frame_buffer = ClearedFrame(NewBitmap(width, height), DefaultBG)
    /\ _depth_buffer = [c \in Pixels(width, height) |-> RZero]
    /\ maxrhw = [c \in Pixels(width, height) |-> RZero]
    /\ _vertex = NoVaryings
    /\ life = [op |-> "RenderHelp(int, int)", width |-> width, height |-> height]

\* What is drawn in between: a triangle that is filled, one with a vertex
\* behind the near plane; all in red.
LifeTris ==
    { <<P(-1, 1, 0, 1), P(-1, -1, 0, 1), P(1, 1, 0, 1)>>,
      <<P(-1, 1, 0, 1), P(0, 0, -1, 1), P(1, 1, 0, 1)>> }

LifeColors == {Halves(2, 0, 0, 2)}

NoHistory == trace = NoTrace /\ shade = NoShade /\ ndraw = 0

\* the sizes passed to the constructor and to Init
Sizes == {<<FbW, FbH>>, <<FbW - 1, FbH - 2>>}

Start ==
    /\ DefaultConstructed \/ \E size \in Sizes : Constructed(size[1], size[2])
    /\ NoHistory

Next ==
    \/ \E size \in Sizes : Init(size[1], size[2])
    \/ Reset
    \/ Clear
    \/ \E vs \in VSHandles : SetVertexShader(vs)
    \/ \E ps \in PSHandles : SetPixelShader(ps)
    \/ \E c \in BGColors : SetBGColor(c)
    \/ \E c \in FGColors : SetFGColor(c)
    \/ \E f \in BOOLEAN, px \in BOOLEAN : SetRenderState(f, px)
    \/ DrawPrimitive(LifeTris, LifeColors, MaxDraws)

Spec == Start /\ [][Next]_vars

-----------------------------------------------------------------------------
(* Drawing on a configured rasterizer *)

\* RenderHelp(width, height), SetVertexShader, then SetPixelShader or not and
\* any SetRenderState
Configured(pss, frames, pixels) ==
    /\ _render_frame \in frames
    /\ _render_pixel \in pixels
    /\ _vertex_shader = <<"vs">>
    /\ _pixel_shader \in pss
    /\ _color_fg = DefaultFG
    /\ _color_bg = DefaultBG
    /\ _fb_width = FbW
    /\ _fb_height = FbH
    /\ _frame_buffer = ClearedFrame(NewBitmap(FbW, FbH), DefaultBG)
    /\ _depth_buffer = [c \in Pixels(FbW, FbH) |-> RZero]
    /\ maxrhw = [c \in Pixels(FbW, FbH) |-> RZero]
    /\ _vertex = NoVaryings
    /\ life = [op |-> "RenderHelp(int, int)", width |-> FbW, height |-> FbH]
    /\ NoHistory

\* Draws over what earlier draws left, and Clear
StartDepth == Configured(PSHandles, BOOLEAN, BOOLEAN)

NextDepth ==
    \/ DrawPrimitive(Tris, PSColors, DepthDraws)
    \/ Clear

SpecDepth == StartDepth /\ [][NextDepth]_vars

\* Positions inside the view volume.  On the 4 x 4 frame they map to the screen
\* points (0,0), (3,1), (2,0.5), (4,2), (0,4), (2,2), (4,4) and (2,0), with
\* 1/w of 1, 1/2 and 1/4.
InsideVerts ==
    { P(-1, 1, 0, 1), P(1, 1, 0, 2), P(0, 3, 0, 4), P(1, 0, 0, 1),
      P(-1, -1, 1, 1), P(0, 0, 1, 2), P(1, -1, 0, 1), P(0, 1, 1, 1) }

\* Positions outside it: w = 0, z < 0, z > w, x < -w, x > w, y < -w, y > w, w < 0
OutsideVerts ==
    { P(0, 0, 0, 0), P(0, 0, -1, 1), P(0, 0, 2, 1), P(-2, 0, 0, 1),
      P(2, 0, 0, 1), P(0, -2, 0, 1), P(0, 2, 0, 1), P(0, 0, 0, -1) }

InsideTris == InsideVerts \X InsideVerts \X InsideVerts

RasterVerts == InsideVerts \cup OutsideVerts

RasterTris == RasterVerts \X RasterVerts \X RasterVerts

RasterColors == {Halves(2, 0, 0, 2)}

\* One draw of any triangle, in any render state
StartRaster == Configured(PSHandles, BOOLEAN, BOOLEAN)

NextRaster == DrawPrimitive(RasterTris, RasterColors, RasterDraws)

SpecRaster == StartRaster /\ [][NextRaster]_vars

\* the channel values k / ColorDen from -1 to 2, and one just under 0
Channels ==
    {Rat(k, ColorDen) : k \in (-ColorDen) .. (2 * ColorDen)} \cup {Rat(-1, 1000)}

ColorInputs ==
    {<<r, g, b, a>> : r \in Channels, g \in {RInt(-1), Rat(1, ColorDen)},
                      b \in {RHalf, Rat(1, ColorDen)}, a \in {RZero, ROne, RInt(2)}}

ColorTris == {<<P(-1, 1, 0, 1), P(1, 1, 0, 1), P(-1, -1, 0, 1)>>}

\* One filled triangle, in any colour the pixel shader may return
StartColor == Configured({<<"ps">>}, {FALSE}, {TRUE})

NextColor == DrawPrimitive(ColorTris, ColorInputs, RasterDraws)

SpecColor == StartColor /\ [][NextColor]_vars

\* a ShaderContext with the given maps
Context(f, v2, v3, v4) ==
    [kind \in Kinds |->
        IF kind = "varying_float" THEN f
        ELSE IF kind = "varying_vec2f" THEN v2
        ELSE IF kind = "varying_vec3f" THEN v3 ELSE v4]

\* What a vertex shader may assign at the indices 0, 1, 2: nothing; the same
\* values at each index; keys that differ from index to index (a vec2f key of
\* index 0 alone, a vec3f key of index 1 alone, a vec4f key of indices 0 and 2).
Varys ==
    { NoVaryings,
      <<Context(0 :> <<Rat(5, 2)>>, <<>>, 2 :> <<ROne, RHalf, RZero>>, <<>>),
        Context(0 :> <<Rat(5, 2)>>, <<>>, 2 :> <<ROne, RHalf, RZero>>, <<>>),
        Context(0 :> <<Rat(5, 2)>>, <<>>, 2 :> <<ROne, RHalf, RZero>>, <<>>)>>,
      <<Context(0 :> <<ROne>>, 1 :> <<ROne, RInt(2)>>, <<>>,
                3 :> <<ROne, RZero, RZero, ROne>>),
        Context(0 :> <<RInt(2)>>, <<>>, 2 :> <<ROne, ROne, ROne>>, <<>>),
        Context(0 :> <<RInt(4)>>, <<>>, <<>>, 3 :> <<RZero, RZero, ROne, ROne>>)>> }

\* The upper-left half of the frame in both windings; a triangle with a
\* different w at each vertex in both windings; a triangle whose second vertex
\* is behind the near plane.
VaryTris ==
    { <<P(-1, 1, 0, 1), P(-1, -1, 0, 1), P(1, 1, 0, 1)>>,
      <<P(-1, 1, 0, 1), P(1, 1, 0, 1), P(-1, -1, 0, 1)>>,
      <<P(-1, 1, 0, 1), P(4, 4, 0, 4), P(-2, -2, 0, 2)>>,
      <<P(-1, 1, 0, 1), P(-2, -2, 0, 2), P(4, 4, 0, 4)>>,
      <<P(-1, 1, 0, 1), P(0, 0, -1, 1), P(1, 1, 0, 1)>> }

\* Draws with varyings, one after another
StartVary == Configured(PSHandles, {FALSE}, {TRUE})

NextVary == DrawPrimitiveWith(VaryTris, Varys, RasterColors, VaryDraws)

SpecVary == StartVary /\ [][NextVary]_vars

\* The same triangle farther (w = 2) and with a different w at each vertex
CallTris ==
    { <<P(-2, 2, 1, 2), P(-2, -2, 1, 2), P(2, 2, 1, 2)>>,
      <<P(-1, 1, 0, 1), P(4, 4, 0, 4), P(-2, -2, 0, 2)>> }

\* Draws over one another with any other call in between
StartCalls == Configured({<<"ps">>}, {FALSE}, {TRUE})

NextCalls ==
    \/ Init(FbW, FbH)
    \/ Reset
    \/ Clear
    \/ \E vs \in VSHandles : SetVertexShader(vs)
    \/ \E ps \in PSHandles : SetPixelShader(ps)
    \/ \E c \in BGColors : SetBGColor(c)
    \/ \E c \in FGColors : SetFGColor(c)
    \/ \E f \in BOOLEAN, px \in BOOLEAN : SetRenderState(f, px)
    \/ DrawPrimitive(CallTris, LifeColors, DepthDraws)

SpecCalls == StartCalls /\ [][NextCalls]_vars

\* Bitmap::DrawLine on a bitmap of FbW x FbH pixels filled with the background
\* colour, between end points inside the bitmap and one pixel outside it
LineCoords == (-1 .. FbW) \X (-1 .. FbH)

DrawLine(ends, colors, maxd) ==
    /\ ndraw < maxd
    /\ _frame_buffer # NULL
    /\ \E a \in ends, b \in ends, color \in colors :
          /\ _frame_buffer' =
                Bitmap_DrawLine(_frame_buffer, a[1], a[2], b[1], b[2], color)
          /\ trace' = [op |-> "line", a |-> a, b |-> b, color |-> color]
    /\ ndraw' = ndraw + 1
    /\ shade' = NoShade
    /\ UNCHANGED <<_depth_buffer, _fb_width, _fb_height, _color_fg, _color_bg,
                   _render_frame, _render_pixel, _vertex_shader, _pixel_shader,
                   _vertex, life, maxrhw>>

StartLine == Configured({NULL}, {FALSE}, {TRUE})

NextLine == DrawLine(LineCoords, FGColors, RasterDraws)

SpecLine == StartLine /\ [][NextLine]_vars

\* Draws with and without buffers and vertex shader: a triangle at w = 1, the
\* same at w = 2, a rejected one, one with normal.z = 0, one whose integer
\* vertices are collinear and one whose integer vertices are clockwise
ReturnTris ==
    { <<P(-1, 1, 0, 1), P(-1, -1, 0, 1), P(1, 1, 0, 1)>>,
      <<P(-2, 2, 1, 2), P(-2, -2, 1, 2), P(2, 2, 1, 2)>>,
      <<P(-1, 1, 0, 1), P(0, 0, 2, 1), P(1, 1, 0, 1)>>,
      <<P(-1, 1, 0, 1), P(0, 0, 0, 1), P(1, -1, 0, 1)>>,
      <<P(-1, 1, 0, 1), P(0, 7, 0, 8), P(1, 1, 0, 1)>>,
      <<P(-1, 1, 0, 1), P(0, 3, 0, 4), P(1, 1, 0, 2)>> }

StartReturn == Configured({<<"ps">>}, BOOLEAN, BOOLEAN)

NextReturn ==
    \/ Reset
    \/ \E vs \in VSHandles : SetVertexShader(vs)
    \/ DrawPrimitive(ReturnTris, LifeColors, DepthDraws)

SpecReturn == StartReturn /\ [][NextReturn]_vars

-----------------------------------------------------------------------------
(* Properties of the coverage test *)

\* the last operation was a DrawPrimitive that reached the fill loops
Filled == trace.op = "draw" /\ trace.stage = "filled"

\* What the coverage stage of a draw computes from the accepted vertices vtx:
\* the integer vertices in fill order and the pixels that pass the edge tests.
CoverageOf(vtx, v, width, height) ==
    [p |-> <<v[1].spi, v[2].spi, v[3].spi>>,
     cov |-> CoveredPixels(v, BoundingBox(vtx, width, height))]

\* the triangles of InsideTris that reach the fill loops, after the vertex loop
FillableTris ==
    {vtx \in {<<Vertex(t[1], FbW, FbH), Vertex(t[2], FbW, FbH),
                Vertex(t[3], FbW, FbH)>> : t \in InsideTris} :
        NormalZ(vtx) # RZero /\ ScreenArea(vtx) > 0}

\* ... and what a draw of each of them covers
Neighbours == {CoverageOf(vtx, Reorder(vtx), FbW, FbH) : vtx \in FillableTris}

\* Edge i of a triangle p in fill order runs from p[i] to p[Succ3(i)]; p[Opp3(i)]
\* is the vertex opposite to it.
Succ3(i) == (i % 3) + 1
Opp3(i) == ((i + 1) % 3) + 1

\* Edge i of p and edge j of q have the same two endpoints, and the third
\* vertices of p and q lie strictly on opposite sides of it.
SharesEdge(p, i, q, j) ==
    /\ p[i] # p[Succ3(i)]
    /\ {p[i], p[Succ3(i)]} = {q[j], q[Succ3(j)]}
    /\ EdgeFn(p[i], p[Succ3(i)], p[Opp3(i)]) * EdgeFn(p[i], p[Succ3(i)], q[Opp3(j)]) < 0

\* The pixel c lies on edge i of p: the edge function is 0 there and the tests
\* of the other two edges are satisfied.
OnEdge(p, i, c) ==
    /\ EdgeFn(p[i], p[Succ3(i)], c) = 0
    /\ EdgePass(p[Succ3(i)], p[Opp3(i)], c)
    /\ EdgePass(p[Opp3(i)], p[i], c)

\* the pixel c lies on the edge that the drawn triangle shares with B
OnSharedEdge(B, i, j, c) ==
    /\ SharesEdge(trace.p, i, B.p, j)
    /\ OnEdge(trace.p, i, c)
    /\ OnEdge(B.p, j, c)

\* C1 (edge conservation): take a drawn triangle that reached the fill loops and
\* any other triangle, submitted in any vertex order, whose integer vertices
\* share an edge with it and lie on the other side of that edge.  Every pixel
\* on the shared edge (edge function 0, the other two edge tests passed in both
\* triangles) passes the coverage test of exactly one of the two.
EdgeConservation ==
    Filled =>
        /\ [p |-> trace.p, cov |-> trace.cov] \in Neighbours
        /\ \A B \in Neighbours : \A i \in 1 .. 3, j \in 1 .. 3 :
              \A c \in Pixels(_fb_width, _fb_height) :
                  OnSharedEdge(B, i, j, c) => ((c \in trace.cov) # (c \in B.cov))

\* a pixel of a shared edge that the drawn triangle covers and its neighbour
\* leaves out
EdgePixelOwned ==
    /\ Filled
    /\ \E B \in Neighbours : \E i \in 1 .. 3, j \in 1 .. 3 :
          \E c \in Pixels(_fb_width, _fb_height) :
              OnSharedEdge(B, i, j, c) /\ c \in trace.cov /\ c \notin B.cov

\* C2 (coverage rule): in the fill loops a pixel (cx, cy) of the clamped
\* bounding box is covered iff E01 >= (TopLeft(p0, p1) ? 0 : 1), E12 >=
\* (TopLeft(p1, p2) ? 0 : 1) and E20 >= (TopLeft(p2, p0) ? 0 : 1), with
\* E_ab = -(cx - a.x) * (b.y - a.y) + (cy - a.y) * (b.x - a.x) and TopLeft(a, b)
\* iff (a.y = b.y and a.x < b.x) or a.y > b.y.  No other pixel is covered, and
\* in the first draw on cleared buffers the covered pixels are those whose
\* depth is written.
CoverageRule ==
    Filled =>
        LET p0 == trace.p[1]
            p1 == trace.p[2]
            p2 == trace.p[3]
            lo(k, n) == Between(0, n - 1, Min(p0[k], Min(p1[k], p2[k])))
            hi(k, n) == Between(0, n - 1, Max(p0[k], Max(p1[k], p2[k])))
            box == (lo(1, _fb_width) .. hi(1, _fb_width))
                       \X (lo(2, _fb_height) .. hi(2, _fb_height))
            E(a, b, c) == (-(c[1] - a[1])) * (b[2] - a[2]) + (c[2] - a[2]) * (b[1] - a[1])
            TopLeft(a, b) == (a[2] = b[2] /\ a[1] < b[1]) \/ a[2] > b[2]
            Bias(a, b) == IF TopLeft(a, b) THEN 0 ELSE 1
        IN  /\ \A c \in box :
                  (c \in trace.cov) <=> /\ E(p0, p1, c) >= Bias(p0, p1)
                                        /\ E(p1, p2, c) >= Bias(p1, p2)
                                        /\ E(p2, p0, c) >= Bias(p2, p0)
            /\ trace.cov \subseteq box
            /\ ndraw = 1 =>
                  \A c \in Pixels(_fb_width, _fb_height) :
                      (c \in trace.cov) <=> (_depth_buffer[c] # RZero)

\* a draw that covers some pixels of its bounding box and leaves out others,
\* one of them for the bias of an edge that is not top-left
CoveragePartial ==
    /\ Filled
    /\ trace.cov # {}
    /\ \E c \in Pixels(_fb_width, _fb_height) : \E i \in 1 .. 3 :
          /\ c \notin trace.cov
          /\ OnEdge(trace.p, i, c)
          /\ ~IsTopLeft(trace.p[i], trace.p[Succ3(i)])

-----------------------------------------------------------------------------
(* Properties of the depth test *)

\* a step of DrawPrimitive
DrawStep == ndraw' = ndraw + 1

\* the pixels, inside the frame or not, of the three lines of the wireframe
\* overlay of a draw of vsout
WirePoints(vsout, width, height) ==
    LET a == Vertex(vsout[1], width, height).spi
        b == Vertex(vsout[2], width, height).spi
        c == Vertex(vsout[3], width, height).spi
    IN  LinePoints(a[1], a[2], b[1], b[2]) \cup LinePoints(a[1], a[2], c[1], c[2])
            \cup LinePoints(c[1], c[2], b[1], b[2])

\* C3 (depth monotonicity): after any sequence of DrawPrimitive calls that
\* follows a Clear or an Init, the depth of every pixel is the maximum
\* interpolated rhw of the fragments that passed the coverage test there since,
\* and 0 where there was none.  maxrhw records that maximum, call by call.
DepthIsMaxRhw ==
    _depth_buffer # NULL =>
        \A c \in DOMAIN _depth_buffer : _depth_buffer[c] = maxrhw[c]

\* a second draw left a fragment behind the depth an earlier draw had written
DepthKept ==
    /\ Filled
    /\ ndraw >= 2
    /\ \E c \in DOMAIN trace.rhw :
          /\ RLt(trace.rhw[c], _depth_buffer[c])
          /\ _depth_buffer[c] = trace.read[c]

\* C4 (depth test): a covered fragment is discarded (depth and frame pixel as
\* they were, pixel shader not called) iff its interpolated rhw is strictly
\* less than the stored depth; otherwise the depth becomes its rhw and the
\* frame pixel is overwritten.  So a fragment whose rhw is at least that of
\* every fragment drawn there before (ties included) leaves its colour.  The
\* frame pixel is the one the fill loop leaves: a pixel on the lines of the
\* wireframe overlay of the same call is left out.
DepthTest ==
    [][(DrawStep /\ trace'.stage = "filled") =>
          LET wire == IF _render_frame
                      THEN WirePoints(trace'.vsout, _fb_width, _fb_height) ELSE {}
              color == vector_to_color(PixelColor(_pixel_shader, trace'.pscolor))
          IN  \A c \in DOMAIN trace'.rhw :
                 /\ IF RLt(trace'.rhw[c], _depth_buffer[c])
                    THEN /\ _depth_buffer'[c] = _depth_buffer[c]
                         /\ c \notin wire =>
                               _frame_buffer'.bits[c] = _frame_buffer.bits[c]
                         /\ c \notin trace'.shaded
                    ELSE /\ _depth_buffer'[c] = trace'.rhw[c]
                         /\ c \notin wire => _frame_buffer'.bits[c] = color
                         /\ _pixel_shader # NULL => c \in trace'.shaded
                 /\ (~RLt(trace'.rhw[c], maxrhw[c]) /\ c \notin wire) =>
                       _frame_buffer'.bits[c] = color
    ]_vars

\* a fragment exactly as near as the one drawn there before has been written
DepthTie ==
    /\ Filled
    /\ ~_render_frame
    /\ _pixel_shader # NULL
    /\ \E c \in trace.pass :
          /\ trace.read[c] # RZero
          /\ trace.rhw[c] = trace.read[c]
          /\ c \in trace.shaded
          /\ _frame_buffer.bits[c] = vector_to_color(trace.pscolor)

-----------------------------------------------------------------------------
(* Properties of the rejects *)

\* a position <<x, y, z, w>> outside the view volume, or with w = 0
Outside(pos) ==
    \/ pos[4] = RZero
    \/ RLt(pos[3], RZero)
    \/ RLt(pos[4], pos[3])
    \/ RLt(pos[1], RNeg(pos[4]))
    \/ RLt(pos[4], pos[1])
    \/ RLt(pos[2], RNeg(pos[4]))
    \/ RLt(pos[4], pos[2])

\* the three vertices of vsout are inside the view volume
Accepted(vsout) == \A k \in 1 .. 3 : ~Outside(vsout[k])

\* the vertices of an accepted vsout after the divide, the viewport and the snap
Snapped(vsout, width, height) ==
    <<Vertex(vsout[1], width, height), Vertex(vsout[2], width, height),
      Vertex(vsout[3], width, height)>>

\* normal.z is 0 after the divide, or the integer screen vertices are collinear
Degenerate(vtx) == NormalZ(vtx) = RZero \/ ScreenArea(vtx) = 0

\* C5 (trivial reject): if the vertex shader returns, for any vertex, a
\* position with w = 0, z < 0, z > w, x < -w, x > w, y < -w or y > w,
\* DrawPrimitive returns false and leaves the frame buffer and the depth buffer
\* as they were, with the wireframe on or off and the fill on or off.
TrivialReject ==
    [][(DrawStep /\ \E k \in 1 .. 3 : Outside(trace'.vsout[k])) =>
          /\ trace'.ret = FALSE
          /\ _frame_buffer' = _frame_buffer
          /\ _depth_buffer' = _depth_buffer
    ]_vars

\* the third vertex was rejected, after two accepted ones, with the wireframe on
RejectedLast ==
    /\ trace.op = "draw"
    /\ _render_frame
    /\ _render_pixel
    /\ ~Outside(trace.vsout[1])
    /\ ~Outside(trace.vsout[2])
    /\ Outside(trace.vsout[3])
    /\ trace.ret = FALSE
    /\ trace.nvs = 3

\* C6 as the specification states it: a draw of a degenerate triangle (normal.z
\* = 0 after the divide, or collinear integer screen vertices) returns false
\* and has modified no pixel of the frame buffer, whatever the render state.
DegenerateUntouched ==
    [][(/\ DrawStep
        /\ Accepted(trace'.vsout)
        /\ Degenerate(Snapped(trace'.vsout, _fb_width, _fb_height))) =>
          /\ trace'.ret = FALSE
          /\ _frame_buffer' = _frame_buffer
    ]_vars

\* C6, as the code has it: a draw of a degenerate triangle returns false and
\* leaves the depth buffer as it was.  The frame buffer is as it was when the
\* wireframe is off; when it is on, the three lines of the overlay have been
\* drawn in the foreground colour, since the overlay comes before the two
\* tests, and no other pixel has changed.
DegenerateOverlayOnly ==
    [][(/\ DrawStep
        /\ Accepted(trace'.vsout)
        /\ Degenerate(Snapped(trace'.vsout, _fb_width, _fb_height))) =>
          /\ trace'.ret = FALSE
          /\ _depth_buffer' = _depth_buffer
          /\ ~_render_frame => _frame_buffer' = _frame_buffer
          /\ \A c \in Pixels(_fb_width, _fb_height) :
                _frame_buffer'.bits[c] =
                    IF /\ _render_frame
                       /\ c \in WirePoints(trace'.vsout, _fb_width, _fb_height)
                    THEN _color_fg ELSE _frame_buffer.bits[c]
    ]_vars

\* a degenerate triangle was dropped by one of the two tests and its outline
\* is in the frame buffer
DegenerateOutlined ==
    /\ trace.op = "draw"
    /\ trace.stage \in {"degenerate", "zeroarea"}
    /\ trace.ret = FALSE
    /\ _render_frame
    /\ \E c \in Pixels(_fb_width, _fb_height) :
          /\ c \in WirePoints(trace.vsout, _fb_width, _fb_height)
          /\ _frame_buffer.bits[c] = _color_fg
          /\ _color_fg # _color_bg

\* the fields of the rasterizer that DrawPrimitive may not touch on a failed
\* precondition
fields ==
    <<_frame_buffer, _depth_buffer, _fb_width, _fb_height, _color_fg, _color_bg,
      _render_frame, _render_pixel, _vertex_shader, _pixel_shader>>

\* C7 (precondition failure): DrawPrimitive without a vertex shader, or
\* without buffers (after the default constructor, after Reset), returns false,
\* calls no shader and changes neither buffer, nor the render state, nor the
\* shaders.
PreconditionFailure ==
    [][(/\ DrawStep
        /\ (_vertex_shader = NULL \/ _frame_buffer = NULL \/ _depth_buffer = NULL)) =>
          /\ trace'.ret = FALSE
          /\ trace'.nvs = 0
          /\ trace'.shaded = {}
          /\ UNCHANGED fields
    ]_vars

\* a draw on an initialized rasterizer that has no vertex shader
DrawnWithoutVertexShader ==
    /\ trace.op = "draw"
    /\ _vertex_shader = NULL
    /\ _frame_buffer # NULL
    /\ _render_pixel
    /\ trace.ret = FALSE

\* a draw with a vertex shader, buffers, the fill on and no pixel shader
NoPixelShaderDraw ==
    /\ DrawStep
    /\ _pixel_shader = NULL
    /\ _vertex_shader # NULL
    /\ _frame_buffer # NULL
    /\ _render_pixel

\* C8 as the specification states it: without a pixel shader DrawPrimitive
\* returns failure and changes neither the frame buffer nor the depth buffer.
NoPixelShaderNoOp ==
    [][NoPixelShaderDraw =>
          /\ trace'.ret = FALSE
          /\ _frame_buffer' = _frame_buffer
          /\ _depth_buffer' = _depth_buffer
    ]_vars

\* C8, as the code has it: without a pixel shader DrawPrimitive calls none and
\* goes on as if one had returned (0, 0, 0, 0).  It returns true iff the
\* triangle is accepted and not degenerate; every fragment that passes the
\* depth test has its depth written and its frame pixel set to 0x00000000; the
\* other pixels off the wireframe lines keep their colour.
NoPixelShaderBlack ==
    [][NoPixelShaderDraw =>
          LET wire == IF _render_frame /\ Accepted(trace'.vsout)
                      THEN WirePoints(trace'.vsout, _fb_width, _fb_height) ELSE {}
          IN  /\ trace'.shaded = {}
              /\ trace'.ret =
                    (/\ Accepted(trace'.vsout)
                     /\ ~Degenerate(Snapped(trace'.vsout, _fb_width, _fb_height)))
              /\ \A c \in Pixels(_fb_width, _fb_height) :
                    IF c \in trace'.pass
                    THEN /\ _depth_buffer'[c] = trace'.rhw[c]
                         /\ c \notin wire => _frame_buffer'.bits[c] = <<0, 0>>
                    ELSE /\ _depth_buffer'[c] = _depth_buffer[c]
                         /\ c \notin wire =>
                               _frame_buffer'.bits[c] = _frame_buffer.bits[c]
    ]_vars

\* a triangle was filled with 0x00000000 by a draw without a pixel shader
FilledWithoutPixelShader ==
    /\ Filled
    /\ _pixel_shader = NULL
    /\ trace.ret = TRUE
    /\ trace.shaded = {}
    /\ \E c \in trace.pass :
          _frame_buffer.bits[c] = <<0, 0>> /\ _depth_buffer[c] # RZero

-----------------------------------------------------------------------------
(* Winding, colours *)

\* C9 (winding independence): from the same state, a draw of the vertex
\* outputs (V0, V1, V2) and a draw of (V0, V2, V1) leave the same frame buffer
\* and the same depth buffer and return the same value.
WindingIndependence ==
    [][DrawStep =>
          \E r \in {DrawPrimitiveOn(Self, <<trace'.vsout[1], trace'.vsout[3],
                                            trace'.vsout[2]>>, trace'.pscolor)} :
              /\ r.ret = trace'.ret
              /\ r.fb = _frame_buffer'
              /\ r.db = _depth_buffer'
    ]_vars

\* a triangle that the fill stage re-oriented has been filled
Reoriented ==
    /\ Filled
    /\ trace.cov # {}
    /\ RLt(RZero, NormalZ(Snapped(trace.vsout, _fb_width, _fb_height)))

\* the colour (2, -1, 0.5, 1)
OutOfRange == <<RInt(2), RInt(-1), RHalf, ROne>>

\* floor(x * 255) clamped to [0, 255]
FloorByte(x) ==
    LET f == RFloor(RMul(x, RInt(255)))
    IN  IF f < 0 THEN 0 ELSE IF f > 255 THEN 255 ELSE f

\* C10 as the specification states it: a pixel shader that returns
\* (2, -1, 0.5, 1) writes the channel bytes (R, G, B, A) = (255, 0, 128, 255).
ColorClampExample ==
    (Filled /\ _pixel_shader # NULL /\ ~_render_frame /\ trace.pscolor = OutOfRange) =>
        \A c \in trace.pass : _frame_buffer.bits[c] = <<255 * 256 + 255, 0 * 256 + 128>>

\* C10, as the code has it: each channel byte that vector_to_color writes is
\* floor(x * 255) clamped to [0, 255]; a pixel shader that returns
\* (2, -1, 0.5, 1) writes the channel bytes (R, G, B, A) = (255, 0, 127, 255).
ColorClamp ==
    (Filled /\ _pixel_shader # NULL /\ ~_render_frame) =>
        \A c \in trace.pass :
            /\ _frame_buffer.bits[c] =
                  <<FloorByte(trace.pscolor[4]) * 256 + FloorByte(trace.pscolor[1]),
                    FloorByte(trace.pscolor[2]) * 256 + FloorByte(trace.pscolor[3])>>
            /\ trace.pscolor = OutOfRange =>
                  _frame_buffer.bits[c] = <<255 * 256 + 255, 0 * 256 + 127>>

\* a triangle has been filled with the colour (2, -1, 0.5, 1)
OutOfRangeDrawn ==
    /\ Filled
    /\ _pixel_shader # NULL
    /\ trace.pscolor = OutOfRange
    /\ \E c \in trace.pass : _frame_buffer.bits[c] = <<255 * 256 + 255, 0 * 256 + 127>>


-----------------------------------------------------------------------------
(* Properties of the shader contexts *)

\* the numbers 1 .. 3 of the vertices of vsout in the order the fill stage uses them
FillIndex(vsout, width, height) ==
    IF RLt(RZero, NormalZ(Snapped(vsout, width, height))) THEN <<1, 3, 2>>
    ELSE <<1, 2, 3>>

\* a, b, c at the pixel c for the vertices of vsout taken in the order o
ScreenWeights(vsout, o, c, width, height) ==
    LET sn == Snapped(vsout, width, height)
    IN  Weights(Areas(<<sn[o[1]], sn[o[2]], sn[o[3]]>>, c))

\* c0, c1, c2 there: rhw of the vertex * its weight / the interpolated rhw
FragmentWeights(vsout, o, c, width, height) ==
    LET sn == Snapped(vsout, width, height)
        abc == ScreenWeights(vsout, o, c, width, height)
        rhw == RAdd(RAdd(RMul(sn[o[1]].rhw, abc[1]), RMul(sn[o[2]].rhw, abc[2])),
                    RMul(sn[o[3]].rhw, abc[3]))
    IN  [k \in 1 .. 3 |-> RMul(RMul(sn[o[k]].rhw, abc[k]), RInv(rhw))]

\* the value a vertex shader assigned to a key, zero when it assigned none
ValueOrZero(ctx, kind, key) ==
    IF key \in DOMAIN ctx[kind] THEN ctx[kind][key] ELSE [i \in 1 .. Dim(kind) |-> RZero]

\* c0 * v0 + c1 * v1 + c2 * v2 of the key, the vertices in the order o
Blend(vy, o, cw, kind, key) ==
    [i \in 1 .. Dim(kind) |->
        RAdd(RAdd(RMul(cw[1], ValueOrZero(vy[o[1]], kind, key)[i]),
                  RMul(cw[2], ValueOrZero(vy[o[2]], kind, key)[i])),
             RMul(cw[3], ValueOrZero(vy[o[3]], kind, key)[i]))]

\* C11 (varying interpolation): at every pixel shader call of a draw the input
\* holds, for each of the four kinds, exactly the keys the vertex shader
\* assigned at index 0, each with the value c0 * v0 + c1 * v1 + c2 * v2, where
\* v1 and v2 are what it assigned at the (possibly swapped) other two indices
\* and zero where it assigned nothing; a key assigned only at index 1 or 2 is
\* not in the input.
VaryingInterpolation ==
    [][DrawStep =>
        \A c \in DOMAIN shade'.input :
            LET o == FillIndex(trace'.vsout, _fb_width, _fb_height)
                cw == FragmentWeights(trace'.vsout, o, c, _fb_width, _fb_height)
            IN  \A kind \in Kinds :
                    /\ DOMAIN shade'.input[c][kind] = DOMAIN shade'.vary[1][kind]
                    /\ \A key \in DOMAIN shade'.vary[1][kind] :
                           shade'.input[c][kind][key]
                               = Blend(shade'.vary, o, cw, kind, key)]_vars

\* a draw with swapped vertices reached the pixel shader with a key of index 0
\* that index 1 lacks, while index 1 had a key that index 0 lacks
VaryingDelivered ==
    /\ Reoriented
    /\ DOMAIN shade.input # {}
    /\ \E kind \in Kinds :
           (DOMAIN shade.vary[1][kind]) \ (DOMAIN shade.vary[2][kind]) # {}
    /\ \E kind \in Kinds :
           (DOMAIN shade.vary[2][kind]) \ (DOMAIN shade.vary[1][kind]) # {}
    /\ \E c \in DOMAIN shade.input :
           shade.input[c]["varying_float"][0] \notin
               {shade.vary[k]["varying_float"][0] : k \in 1 .. 3}


\* the sum of three weights
Sum3(wt) == RAdd(RAdd(wt[1], wt[2]), wt[3])

\* the keys of a kind that the vertex shader assigned the same value at all
\* three indices
EqualKeys(vy, kind) ==
    {key \in DOMAIN vy[1][kind] :
        /\ key \in DOMAIN vy[2][kind]
        /\ key \in DOMAIN vy[3][kind]
        /\ vy[1][kind][key] = vy[2][kind][key]
        /\ vy[1][kind][key] = vy[3][kind][key]}

\* C12 (convex weights): at every covered pixel of a draw a, b, c are at least
\* 0 and sum to 1, and so do c0 = a * rhw0 * w, c1 = b * rhw1 * w and
\* c2 = c * rhw2 * w; a varying that has the same value at the three vertices
\* reaches the pixel shader with that value; and when the three rhw are equal
\* c0, c1, c2 are a, b, c.
WeightsConvex ==
    [][DrawStep /\ trace'.stage = "filled" =>
        \A v \in {Reorder(Snapped(trace'.vsout, _fb_width, _fb_height))} :
            \A c \in trace'.cov :
                \A ar \in {Areas(v, c)} : \A wt \in {Weights(ar)} :
                    \A cw \in {PixelWeights(v, wt)} :
                        /\ ar.s # RZero
                        /\ \A k \in 1 .. 3 : RLe(RZero, wt[k]) /\ RLe(RZero, cw[k])
                        /\ Sum3(wt) = ROne
                        /\ Sum3(cw) = ROne
                        /\ (v[1].rhw = v[2].rhw /\ v[2].rhw = v[3].rhw) => cw = wt
                        /\ c \in DOMAIN shade'.input =>
                               \A kind \in Kinds :
                                   \A key \in EqualKeys(shade'.vary, kind) :
                                       shade'.input[c][kind][key]
                                           = shade'.vary[1][kind][key]]_vars

\* a draw of a triangle with three different rhw shaded a pixel inside it, with
\* a varying that has the same value at the three vertices
WeightsMixed ==
    /\ Filled
    /\ LET v == Reorder(Snapped(trace.vsout, _fb_width, _fb_height))
       IN  /\ v[1].rhw # v[2].rhw /\ v[2].rhw # v[3].rhw /\ v[1].rhw # v[3].rhw
           /\ \E c \in DOMAIN shade.input :
                  /\ \A k \in 1 .. 3 : RLt(RZero, Weights(Areas(v, c))[k])
                  /\ PixelWeights(v, Weights(Areas(v, c))) # Weights(Areas(v, c))
                  /\ EqualKeys(shade.vary, "varying_vec3f") # {}


-----------------------------------------------------------------------------
(* Properties of the order of the steps of a draw *)

\* the positions in the log of the steps of one kind at one pixel
StepsAt(log, do, c) == {i \in DOMAIN log : log[i] = [do |-> do, at |-> c]}

\* C13 (per-fragment ordering): in a draw, a fragment that passes the coverage
\* and the depth test has its depth written, then (with a pixel shader
\* registered) the pixel shader called once, then its frame pixel written; the
\* pixel shader is called for no other pixel; and whatever colour the shader
\* returns the depth holds the fragment's rhw and the frame pixel its colour
\* after the call (a pixel on the lines of the wireframe overlay of the same
\* call is repainted after the fill).
FragmentOrdering ==
    [][DrawStep =>
        \A log \in {shade'.log} :
        \A passing \in {{c \in DOMAIN trace'.rhw :
                            ~RLt(trace'.rhw[c], _depth_buffer[c])}} :
        \A wire \in {IF _render_frame /\ trace'.stage = "filled"
                     THEN WirePoints(trace'.vsout, _fb_width, _fb_height) ELSE {}} :
        \A color \in {vector_to_color(PixelColor(_pixel_shader, trace'.pscolor))} :
            /\ \A c \in passing :
                   \A ds \in {StepsAt(log, "depth", c)} :
                   \A ps \in {StepsAt(log, "shader", c)} :
                   \A fs \in {StepsAt(log, "frame", c)} :
                       /\ Cardinality(ds) = 1
                       /\ Cardinality(fs) = 1
                       /\ Cardinality(ps) = IF _pixel_shader = NULL THEN 0 ELSE 1
                       /\ \A d \in ds, f \in fs : d < f
                       /\ \A d \in ds, f \in fs, q \in ps : d < q /\ q < f
                       /\ _depth_buffer'[c] = trace'.rhw[c]
                       /\ c \notin wire => _frame_buffer'.bits[c] = color
            /\ \A i \in DOMAIN log : log[i].at \in passing
            /\ trace'.shaded = IF _pixel_shader = NULL THEN {} ELSE passing]_vars

\* a draw over an earlier one, with a pixel shader that returns a colour with
\* channels outside [0, 1], shaded some covered pixels and left others to the
\* depth test
FragmentsShadedAndDiscarded ==
    /\ Filled
    /\ _pixel_shader # NULL
    /\ trace.pscolor = Halves(4, -2, 1, 2)
    /\ trace.shaded # {}
    /\ trace.shaded # DOMAIN trace.rhw
    /\ \E i \in DOMAIN shade.log : shade.log[i].do = "shader"


-----------------------------------------------------------------------------
(* Properties of the wireframe overlay *)

\* The pixel c is on the segment that joins the integer points a and b: within
\* the rectangle they span and less than one pixel from the line through them,
\* measured along the axis in which the segment is shorter.
OnSegment(c, a, b) ==
    /\ Min(a[1], b[1]) <= c[1] /\ c[1] <= Max(a[1], b[1])
    /\ Min(a[2], b[2]) <= c[2] /\ c[2] <= Max(a[2], b[2])
    /\ IAbs(vector_cross_i(<<c[1] - a[1], c[2] - a[2]>>, <<b[1] - a[1], b[2] - a[2]>>))
           <= Max(IAbs(b[1] - a[1]), IAbs(b[2] - a[2]))

\* the integer screen positions of the vertices of an accepted vsout
Corners(vsout, width, height) ==
    <<Vertex(vsout[1], width, height).spi, Vertex(vsout[2], width, height).spi,
      Vertex(vsout[3], width, height).spi>>

\* the pixels on the three segments that join them
SegmentPixels(vsout, width, height) ==
    LET p == Corners(vsout, width, height)
    IN  {c \in Pixels(width, height) :
            OnSegment(c, p[1], p[2]) \/ OnSegment(c, p[1], p[3])
                \/ OnSegment(c, p[3], p[2])}

\* The point beside the end of a segment with dx = dy # 0: after the end
\* point with the greater x, one row farther in the direction of the segment.
BesideEnd(a, b) ==
    IF a[1] = b[1] \/ IAbs(b[1] - a[1]) # IAbs(b[2] - a[2]) THEN {}
    ELSE LET e == IF a[1] < b[1] THEN b ELSE a
             o == IF a[1] < b[1] THEN a ELSE b
         IN  {<<e[1], e[2] + (IF e[2] >= o[2] THEN 1 ELSE -1)>>}

\* ... of the three segments of a draw
BesideEnds(vsout, width, height) ==
    LET p == Corners(vsout, width, height)
    IN  BesideEnd(p[1], p[2]) \cup BesideEnd(p[1], p[3]) \cup BesideEnd(p[3], p[2])

\* a draw with the wireframe on and the fill off, of vertices that pass the
\* trivial reject
WireframeOnlyDraw ==
    DrawStep /\ _frame_buffer # NULL /\ _vertex_shader # NULL /\ _render_frame
        /\ ~_render_pixel /\ Accepted(trace'.vsout)

OverlaySurvivesFill ==
    [][(DrawStep /\ _render_frame /\ trace'.ret = TRUE) =>
          \A c \in WirePoints(trace'.vsout, _fb_width, _fb_height)
                       \cap Pixels(_fb_width, _fb_height) :
              _frame_buffer'.bits[c] = _color_fg
    ]_vars

\* a filled draw with the wireframe on wrote, in the fill, a pixel of the
\* lines in another colour than the foreground colour
OverlayOverFill ==
    /\ Filled
    /\ trace.ret = TRUE
    /\ _render_frame
    /\ \E c \in trace.pass \cap WirePoints(trace.vsout, _fb_width, _fb_height) :
          /\ vector_to_color(PixelColor(_pixel_shader, trace.pscolor)) # _color_fg
          /\ _frame_buffer.bits[c] = _color_fg


-----------------------------------------------------------------------------
(* Properties of the vertex shader calls *)

\* a context with a key of some kind
HasVarying(ctx) == \E kind \in Kinds : DOMAIN ctx[kind] # {}

\* C16 (vertex shader protocol): a draw calls the vertex shader with the
\* indices 0, 1, 2 in this order, each at most once and no other value; at
\* each call the context of that vertex is empty in all four kinds, whatever an
\* earlier draw left in it; and when the vertex k is rejected the calls are
\* those for 0 .. k.
VertexShaderProtocol ==
    [][DrawStep =>
          LET calls == shade'.vs
          IN  /\ Len(calls) <= 3
              /\ \A i \in DOMAIN calls :
                    /\ calls[i].index = i - 1
                    /\ \A kind \in Kinds : DOMAIN calls[i].seen[kind] = {}
              /\ (_frame_buffer # NULL /\ _vertex_shader # NULL) =>
                    /\ Len(calls) >= 1
                    /\ \A k \in 1 .. 3 :
                          (/\ Outside(trace'.vsout[k])
                           /\ \A j \in 1 .. (k - 1) : ~Outside(trace'.vsout[j])) =>
                              Len(calls) = k
                    /\ Accepted(trace'.vsout) => Len(calls) = 3
    ]_vars

\* a draw whose second vertex was rejected, after a draw that left varyings in
\* the contexts of all three vertices: two calls, and the third context still
\* holds what the earlier draw left
StaleVaryings ==
    /\ trace.op = "draw"
    /\ trace.stage = "reject"
    /\ Len(shade.vs) = 2
    /\ \A k \in 1 .. 3 : HasVarying(shade.before[k])
    /\ HasVarying(shade.vary[1])
    /\ shade.before[1] # shade.vary[1]
    /\ _vertex[3] = shade.before[3]


-----------------------------------------------------------------------------
(* Properties of the rasterizer's life *)

\* buffers of width x height, every pixel bg and every depth 0
AllCleared(fb, db, width, height, bg) ==
    /\ fb # NULL
    /\ db # NULL
    /\ \A c \in Pixels(width, height) : fb.bits[c] = bg /\ db[c] = RZero

\* C17 (Clear): right after RenderHelp(W, H) and after Init(W, H) every pixel
\* of the frame buffer is the background colour and every depth is 0; after
\* Clear() on a rasterizer with buffers every pixel is the background colour
\* that SetBGColor set last and every depth is 0; Clear() on a rasterizer
\* without buffers changes nothing.
ClearSemantics ==
    /\ life.op = "RenderHelp(int, int)" =>
           AllCleared(_frame_buffer, _depth_buffer, life.width, life.height, _color_bg)
    /\ [][/\ trace'.op = "Init" =>
                AllCleared(_frame_buffer', _depth_buffer', life'.width, life'.height,
                           _color_bg')
          /\ (trace'.op = "Clear" /\ _frame_buffer # NULL) =>
                /\ AllCleared(_frame_buffer', _depth_buffer', _fb_width, _fb_height,
                              _color_bg)
                /\ _color_bg' = _color_bg
          /\ (trace'.op = "Clear" /\ _frame_buffer = NULL) => UNCHANGED fields
         ]_vars

\* Clear() has wiped a draw with a background colour set by SetBGColor
ClearedToSetColor ==
    /\ trace.op = "Clear"
    /\ ndraw > 0
    /\ _color_bg # DefaultBG
    /\ AllCleared(_frame_buffer, _depth_buffer, _fb_width, _fb_height, _color_bg)


\* C18 (buffer lifecycle): after any sequence of calls the frame buffer exists
\* iff the depth buffer exists iff the last of the constructor, Init and Reset
\* was Init or RenderHelp(W, H); and then both buffers, and _fb_width and
\* _fb_height, have the W and H of that call.
BufferLifecycle ==
    /\ (_frame_buffer # NULL) <=> (_depth_buffer # NULL)
    /\ (_frame_buffer # NULL) <=> (life.op \in {"Init", "RenderHelp(int, int)"})
    /\ _frame_buffer # NULL =>
          /\ _frame_buffer.w = life.width
          /\ _frame_buffer.h = life.height
          /\ DOMAIN _frame_buffer.bits = Pixels(life.width, life.height)
          /\ DOMAIN _depth_buffer = Pixels(life.width, life.height)
          /\ _fb_width = life.width
          /\ _fb_height = life.height

\* buffers of the second size, from an Init after something was drawn in
\* buffers of the first size
Reinitialized ==
    /\ life.op = "Init"
    /\ life.again
    /\ ndraw > 0
    /\ _frame_buffer # NULL
    /\ _frame_buffer.w = FbW - 1
    /\ _frame_buffer.h = FbH - 2


\* C19 (Init resets first): Init(W2, H2) on a rasterizer that has buffers and
\* shaders leaves it as Reset() and Init(W2, H2) on a new one would: buffers of
\* the new size, cleared to the default background colour, the shaders NULL,
\* the colours 0xffffffff and 0xff191970, the render state as it was.  So a
\* DrawPrimitive after it returns false as long as no vertex shader has been
\* registered again.
InitResetsFirst ==
    [][/\ (trace'.op = "Init" /\ _frame_buffer # NULL) =>
             /\ _vertex_shader' = NULL
             /\ _pixel_shader' = NULL
             /\ _color_fg' = <<65535, 65535>>
             /\ _color_bg' = <<65305, 6512>>
             /\ _fb_width' = life'.width
             /\ _fb_height' = life'.height
             /\ _frame_buffer'.w = life'.width
             /\ _frame_buffer'.h = life'.height
             /\ AllCleared(_frame_buffer', _depth_buffer', life'.width, life'.height,
                           <<65305, 6512>>)
             /\ DOMAIN _frame_buffer'.bits = Pixels(life'.width, life'.height)
             /\ DOMAIN _depth_buffer' = Pixels(life'.width, life'.height)
             /\ UNCHANGED <<_render_frame, _render_pixel>>
       /\ (DrawStep /\ life.op = "Init" /\ _vertex_shader = NULL) =>
             /\ trace'.ret = FALSE
             /\ UNCHANGED fields
      ]_vars

\* a draw right after an Init of the second size, on a rasterizer that had
\* buffers and a vertex shader, has returned false
DrawnAfterReinit ==
    /\ trace.op = "draw"
    /\ trace.ret = FALSE
    /\ trace.stage = "precondition"
    /\ life.op = "Init"
    /\ life.again
    /\ life.width = FbW - 1
    /\ _frame_buffer # NULL
    /\ _vertex_shader = NULL
    /\ _render_pixel


-----------------------------------------------------------------------------
(* Properties of the viewport mapping *)

\* x / w and y / w of a position
Ndc(pos) == <<RMul(pos[1], RInv(pos[4])), RMul(pos[2], RInv(pos[4]))>>

\* ((x + 1) * W / 2, (1 - y) * H / 2)
ScreenOf(ndc, width, height) ==
    <<RMul(RAdd(ndc[1], ROne), Rat(width, 2)), RMul(RSub(ROne, ndc[2]), Rat(height, 2))>>

\* C20 (viewport mapping): a vertex that passes the trivial reject, with the
\* position (x, y) after the divide, has spf.x = (x + 1) * W / 2 and
\* spf.y = (1 - y) * H / 2; so (-1, 1) is mapped to (0, 0), (1, -1) to (W, H)
\* and (0, 0) to (W / 2, H / 2).
ViewportMapping ==
    [][(DrawStep /\ Accepted(trace'.vsout)) =>
          \A k \in 1 .. 3 :
              \A v \in {Vertex(trace'.vsout[k], _fb_width, _fb_height)} :
                  \A ndc \in {Ndc(trace'.vsout[k])} :
                      /\ v.ok
                      /\ v.spf = ScreenOf(ndc, _fb_width, _fb_height)
                      /\ ndc = <<RInt(-1), ROne>> => v.spf = <<RZero, RZero>>
                      /\ ndc = <<ROne, RInt(-1)>> =>
                             v.spf = <<RInt(_fb_width), RInt(_fb_height)>>
                      /\ ndc = <<RZero, RZero>> =>
                             v.spf = <<Rat(_fb_width, 2), Rat(_fb_height, 2)>>
                      /\ trace'.stage = "filled" =>
                             \E j \in 1 .. 3 :
                                 trace'.p[j] = <<ToInt(RAdd(v.spf[1], RHalf)),
                                                 ToInt(RAdd(v.spf[2], RHalf))>>
    ]_vars

\* a draw of vertices at (-1, 1), (1, -1) and, with w = 2, (0, 0)
CornersAndCentre ==
    /\ trace.op = "draw"
    /\ trace.nvs = 3
    /\ Accepted(trace.vsout)
    /\ Ndc(trace.vsout[1]) = <<RInt(-1), ROne>>
    /\ Ndc(trace.vsout[2]) = <<ROne, RInt(-1)>>
    /\ Ndc(trace.vsout[3]) = <<RZero, RZero>>
    /\ trace.vsout[3][4] = RInt(2)
    /\ Vertex(trace.vsout[2], _fb_width, _fb_height).spf
           = <<RInt(_fb_width), RInt(_fb_height)>>


-----------------------------------------------------------------------------
(* Properties of the vertex stage *)

\* C21 (integer snapping): every vertex of a draw that passes the trivial
\* reject has spi.x = floor(spf.x + 0.5) and spi.y = floor(spf.y + 0.5), spf
\* being nowhere negative, and its rhw is 1 / w of the position the vertex
\* shader returned.
IntegerSnapping ==
    [][(DrawStep /\ Accepted(trace'.vsout)) =>
          \A k \in 1 .. 3 :
              \A v \in {Vertex(trace'.vsout[k], _fb_width, _fb_height)} :
                  /\ RLe(RZero, v.spf[1])
                  /\ RLe(RZero, v.spf[2])
                  /\ v.spi[1] = RFloor(RAdd(v.spf[1], RHalf))
                  /\ v.spi[2] = RFloor(RAdd(v.spf[2], RHalf))
                  /\ RMul(v.rhw, trace'.vsout[k][4]) = ROne
                  /\ trace'.stage = "filled" => \E j \in 1 .. 3 : trace'.p[j] = v.spi
    ]_vars

\* a filled draw with a vertex half-way between two pixel rows, at w = 4
SnappedHalfway ==
    /\ Filled
    /\ \E k \in 1 .. 3 :
          \A v \in {Vertex(trace.vsout[k], _fb_width, _fb_height)} :
              /\ trace.vsout[k][4] = RInt(4)
              /\ v.rhw = Rat(1, 4)
              /\ v.spf[2] = RHalf
              /\ v.spi[2] = 1
              /\ v.spi \in {trace.p[j] : j \in 1 .. 3}


\* the least and the greatest of three integers
Min3(a, b, c) == Min(Min(a, b), c)
Max3(a, b, c) == Max(Max(a, b), c)

\* x brought into lo .. hi
Clamp(lo, hi, x) == IF x < lo THEN lo ELSE IF x > hi THEN hi ELSE x

\* C22 (bounding box clamp): after the vertex loop of a draw whose vertices
\* pass the trivial reject, 0 <= _min_x <= _max_x <= W - 1 and
\* 0 <= _min_y <= _max_y <= H - 1, the box being the one of the three spi
\* brought into the frame; so every pixel the fill loops visit, and with it
\* every depth read, depth write and frame write of the fill, is inside
\* [0, W - 1] x [0, H - 1], also when a vertex has spi.x = W or spi.y = H.
BoundingBoxClamp ==
    [][(DrawStep /\ _frame_buffer # NULL /\ _vertex_shader # NULL
            /\ Accepted(trace'.vsout)) =>
          \A p \in {Corners(trace'.vsout, _fb_width, _fb_height)} :
          \A box \in {BoundingBox(Snapped(trace'.vsout, _fb_width, _fb_height),
                                  _fb_width, _fb_height)} :
              /\ 0 <= box.min_x /\ box.min_x <= box.max_x /\ box.max_x <= _fb_width - 1
              /\ 0 <= box.min_y /\ box.min_y <= box.max_y /\ box.max_y <= _fb_height - 1
              /\ box.min_x = Clamp(0, _fb_width - 1, Min3(p[1][1], p[2][1], p[3][1]))
              /\ box.max_x = Clamp(0, _fb_width - 1, Max3(p[1][1], p[2][1], p[3][1]))
              /\ box.min_y = Clamp(0, _fb_height - 1, Min3(p[1][2], p[2][2], p[3][2]))
              /\ box.max_y = Clamp(0, _fb_height - 1, Max3(p[1][2], p[2][2], p[3][2]))
              /\ Visited(box) \subseteq Pixels(_fb_width, _fb_height)
              /\ trace'.cov \subseteq Visited(box)
              /\ DOMAIN trace'.read \subseteq trace'.cov
              /\ trace'.pass \subseteq trace'.cov
              /\ \A c \in Pixels(_fb_width, _fb_height) \ Visited(box) :
                    _depth_buffer'[c] = _depth_buffer[c]
    ]_vars

\* a filled draw with a vertex at spi.x = W and one at spi.y = H has written
\* the last column and the last row
FilledToTheBorder ==
    /\ Filled
    /\ \E k \in 1 .. 3 : trace.p[k][1] = _fb_width
    /\ \E k \in 1 .. 3 : trace.p[k][2] = _fb_height
    /\ \E c \in trace.pass : c[1] = _fb_width - 1
    /\ \E c \in trace.pass : c[2] = _fb_height - 1


-----------------------------------------------------------------------------
(* Properties of the colour conversion *)

\* the bytes <<A, R, G, B>> of a packed colour, from the most significant down
BytesOf(color) ==
    <<color[1] \div 256, color[1] % 256, color[2] \div 256, color[2] % 256>>

\* C23 (packed colour layout): the pixel that a draw writes for the colour
\* (r, g, b, a) of the pixel shader is (A << 24) | (R << 16) | (G << 8) | B,
\* with A, R, G, B the bytes, each in 0 .. 255, of a, r, g, b; and the Vec3f
\* overload of vector_to_color gives for (r, g, b) what the Vec4f overload
\* gives for (r, g, b, 1), a colour with the alpha byte 255.
PackedLayout ==
    (Filled /\ _pixel_shader # NULL /\ ~_render_frame) =>
        \A color \in {trace.pscolor} :
        \A rgb \in {<<color[1], color[2], color[3]>>} :
            /\ \A c \in trace.pass :
                  \A bytes \in {BytesOf(_frame_buffer.bits[c])} :
                      /\ \A i \in 1 .. 4 : bytes[i] \in 0 .. 255
                      /\ _frame_buffer.bits[c][1] \in 0 .. 65535
                      /\ _frame_buffer.bits[c][2] \in 0 .. 65535
                      /\ bytes = <<FloorByte(color[4]), FloorByte(color[1]),
                                   FloorByte(color[2]), FloorByte(color[3])>>
            /\ vector_to_color3(rgb) = vector_to_color(<<rgb[1], rgb[2], rgb[3], ROne>>)
            /\ BytesOf(vector_to_color3(rgb))
                   = <<255, FloorByte(color[1]), FloorByte(color[2]), FloorByte(color[3])>>

\* a triangle has been filled with a colour whose four bytes all differ
FourBytesDrawn ==
    /\ Filled
    /\ _pixel_shader # NULL
    /\ \E c \in trace.pass :
          \A bytes \in {BytesOf(_frame_buffer.bits[c])} :
              /\ Cardinality({bytes[i] : i \in 1 .. 4}) = 4
              /\ bytes[1] = 0
              /\ BytesOf(vector_to_color3(<<trace.pscolor[1], trace.pscolor[2],
                                            trace.pscolor[3]>>))[1] = 255


-----------------------------------------------------------------------------
(* Properties of the depth buffer over all calls *)

\* C24 (the depth never decreases): a call other than Clear, Init and Reset,
\* that is a DrawPrimitive or one of the five setters, leaves the depth
\* buffer in place and lowers none of its entries; each depth write of a draw
\* stores a value at least as great as the one stored there before.
DepthMonotone ==
    [][(trace'.op \notin {"Clear", "Init", "Reset"} /\ _depth_buffer # NULL) =>
          /\ _depth_buffer' # NULL
          /\ DOMAIN _depth_buffer' = DOMAIN _depth_buffer
          /\ \A c \in DOMAIN _depth_buffer : RLe(_depth_buffer[c], _depth_buffer'[c])
          /\ DrawStep =>
                \A c \in trace'.pass :
                    /\ trace'.read[c] = _depth_buffer[c]
                    /\ _depth_buffer'[c] = trace'.rhw[c]
                    /\ RLe(trace'.read[c], trace'.rhw[c])
          /\ ~DrawStep => _depth_buffer' = _depth_buffer
    ]_vars

\* a draw over an earlier one has raised the depth of a pixel and has left the
\* depth of another, covered too, as it was
DepthRaised ==
    /\ Filled
    /\ \E c \in trace.pass :
          /\ RLt(RZero, trace.read[c])
          /\ RLt(trace.read[c], trace.rhw[c])
          /\ _depth_buffer[c] = trace.rhw[c]
    /\ \E c \in (DOMAIN trace.rhw) \ trace.pass : _depth_buffer[c] = trace.read[c]


-----------------------------------------------------------------------------
(* Properties of the orientation *)

\* cross(p1 - p0, p2 - p0) of three integer points
SignedArea(p) ==
    vector_cross_i(<<p[2][1] - p[1][1], p[2][2] - p[1][2]>>,
                   <<p[3][1] - p[1][1], p[3][2] - p[1][2]>>)

\* the pixels c with all three edge functions of p0, p1, p2 above 0
StrictlyInside(p, width, height) ==
    {c \in Pixels(width, height) :
        EdgeFn(p[1], p[2], c) > 0 /\ EdgeFn(p[2], p[3], c) > 0 /\ EdgeFn(p[3], p[1], c) > 0}

ScreenCross(v) ==
    vector_cross(<<RSub(v[2].spf[1], v[1].spf[1]), RSub(v[2].spf[2], v[1].spf[2])>>,
                 <<RSub(v[3].spf[1], v[1].spf[1]), RSub(v[3].spf[2], v[1].spf[2])>>)

-----------------------------------------------------------------------------
(* Properties of the return value *)

\* C26 (return value of DrawPrimitive): a call returns true iff the buffers
\* are initialized, a vertex shader is set, the three vertices pass the
\* trivial reject, the fill is on, normal.z after the divide is not 0 and the
\* integer screen area is not 0.  So it returns true when no pixel is covered
\* and when every fragment fails the depth test, and it returns false with the
\* fill off although the wireframe lines have been written.
ReturnValue ==
    [][DrawStep =>
          /\ trace'.ret \in BOOLEAN
          /\ trace'.ret <=>
                /\ _frame_buffer # NULL
                /\ _depth_buffer # NULL
                /\ _vertex_shader # NULL
                /\ Accepted(trace'.vsout)
                /\ _render_pixel
                /\ \A vtx \in {Snapped(trace'.vsout, _fb_width, _fb_height)} :
                      NormalZ(vtx) # RZero /\ ScreenArea(vtx) # 0
          /\ trace'.stage = "filled" => trace'.ret
          /\ (trace'.stage = "filled" /\ trace'.pass = {}) =>
                _depth_buffer' = _depth_buffer
          /\ WireframeOnlyDraw =>
                /\ ~trace'.ret
                /\ \A c \in Pixels(_fb_width, _fb_height) :
                      c \in WirePoints(trace'.vsout, _fb_width, _fb_height) =>
                          _frame_buffer'.bits[c] = _color_fg
    ]_vars

\* a second draw that has returned true although every fragment has failed the
\* depth test
ReturnedTrueBehind ==
    /\ Filled
    /\ ndraw = 2
    /\ trace.ret = TRUE
    /\ trace.cov # {}
    /\ trace.pass = {}

\* a draw that has returned true although no pixel is covered
ReturnedTrueUncovered == Filled /\ trace.ret = TRUE /\ trace.cov = {}

\* a draw that has returned false after it has written the wireframe lines
ReturnedFalseOutlined ==
    /\ trace.op = "draw"
    /\ trace.stage = "nofill"
    /\ trace.ret = FALSE
    /\ \E c \in Pixels(_fb_width, _fb_height) : _frame_buffer.bits[c] = _color_fg

\* a draw that has returned false for each of the other reasons
ReturnedFalseUnready == trace.op = "draw" /\ trace.stage = "precondition" /\ _frame_buffer = NULL
ReturnedFalseNoShader == trace.op = "draw" /\ trace.stage = "precondition" /\ _frame_buffer # NULL
ReturnedFalseRejected == trace.op = "draw" /\ trace.stage = "reject"
ReturnedFalseDegenerate == trace.op = "draw" /\ trace.stage = "degenerate"
ReturnedFalseZeroArea == trace.op = "draw" /\ trace.stage = "zeroarea"

-----------------------------------------------------------------------------
(* Properties of Bitmap::DrawLine *)

\* a call of DrawLine
LineStep == trace'.op = "line" /\ ndraw' = ndraw + 1

\* c is in the rectangle spanned by a and b
InRectangle(c, a, b) ==
    /\ Min(a[1], b[1]) <= c[1] /\ c[1] <= Max(a[1], b[1])
    /\ Min(a[2], b[2]) <= c[2] /\ c[2] <= Max(a[2], b[2])

\* the pixels of the bitmap a call has changed
LineChanged ==
    {c \in Pixels(_fb_width, _fb_height) :
        _frame_buffer'.bits[c] # _frame_buffer.bits[c]}

\* both end points have the colour of the line when they are in the bitmap
EndPointsSet ==
    \A e \in {trace'.a, trace'.b} :
        e \in Pixels(_fb_width, _fb_height) => _frame_buffer'.bits[e] = trace'.color

-----------------------------------------------------------------------------
(* Properties of z *)

\* pos with the z component z
WithZ(pos, z) == <<pos[1], pos[2], z, pos[4]>>

\* the values 0 and w of z, which pass the trivial reject when w > 0
ZInside(pos) == {RZero, pos[4]}

\* the values -1 and w + 1 of z, which do not
ZOutside(pos) == {RInt(-1), RAdd(pos[4], ROne)}

\* vertex shader outputs that differ from vsout in z only, 0 <= z <= w
ZVariants(vsout) ==
    {<<WithZ(vsout[1], z[1]), WithZ(vsout[2], z[2]), WithZ(vsout[3], z[3])>> :
        z \in ZInside(vsout[1]) \X ZInside(vsout[2]) \X ZInside(vsout[3])}

\* those with the z of one vertex below 0 or above w
ZRejects(vsout) ==
    UNION {{[vsout EXCEPT ![k] = WithZ(vsout[k], z)] : z \in ZOutside(vsout[k])} :
              k \in 1 .. 3}

\* C28 (depth is 1 / w): from the same state, the draws of vertex shader
\* outputs that differ only in z, with 0 <= z <= w at every vertex, leave the
\* same frame buffer and the same depth buffer and return the same value, and
\* the same fragments pass the depth test with the same depth.  z only decides
\* the trivial reject: with z < 0 or z > w at a vertex the draw returns false
\* and leaves both buffers.
DepthIgnoresZ ==
    [][(DrawStep /\ Accepted(trace'.vsout)) =>
          /\ \A other \in ZVariants(trace'.vsout) :
                \A r \in {DrawPrimitiveOn(Self, other, trace'.pscolor)} :
                    /\ r.ret = trace'.ret
                    /\ r.fb = _frame_buffer'
                    /\ r.db = _depth_buffer'
                    /\ r.pass = trace'.pass
                    /\ r.rhw = trace'.rhw
          /\ \A other \in ZRejects(trace'.vsout) :
                \A r \in {DrawPrimitiveOn(Self, other, trace'.pscolor)} :
                    /\ r.ret = FALSE
                    /\ r.fb = _frame_buffer
                    /\ r.db = _depth_buffer
    ]_vars

\* a draw of vertices with different z has written depths and has failed the
\* depth test at a pixel an earlier draw had written
DepthTestedWithZ ==
    /\ Filled
    /\ ndraw = 2
    /\ \E j, k \in 1 .. 3 :
          /\ trace.vsout[j][3] # RZero
          /\ trace.vsout[k][3] # trace.vsout[k][4]
    /\ trace.pass # {}
    /\ trace.cov \ trace.pass # {}

-----------------------------------------------------------------------------
(* Properties of rhw *)

\* values of z around 0
ZProbe == {RInt(-2), RInt(-1), RZero, ROne, RInt(2)}

\* every entry of the depth buffer is >= 0
DepthNonNegative ==
    _depth_buffer # NULL => \A c \in DOMAIN _depth_buffer : RLe(RZero, _depth_buffer[c])

\* C29 (positive rhw): a position with w < 0 fails one of the two tests of z
\* whatever z is, so every vertex that passes the trivial reject has w > 0 and
\* rhw = 1 / w > 0; no covered pixel is skipped for s = 0; the interpolated
\* rhw of every fragment lies between the least and the greatest rhw of the
\* three vertices, so it is > 0 and w is never taken as 1 for rhw = 0; a
\* fragment that meets the depth 0 that Clear has left passes the depth test;
\* and every entry of the depth buffer is >= 0 in every reachable state.
PositiveRhw ==
    /\ DepthNonNegative
    /\ [][DrawStep =>
            /\ \A k \in 1 .. 3 : \A pos \in {trace'.vsout[k]} :
                  RLt(pos[4], RZero) =>
                      /\ Rejected(pos)
                      /\ \A z \in ZProbe : RLt(z, RZero) \/ RLt(pos[4], z)
            /\ Accepted(trace'.vsout) =>
                  \A k \in 1 .. 3 :
                      \A v \in {Vertex(trace'.vsout[k], _fb_width, _fb_height)} :
                          /\ RLt(RZero, trace'.vsout[k][4])
                          /\ RLt(RZero, v.rhw)
                          /\ RMul(v.rhw, trace'.vsout[k][4]) = ROne
            /\ trace'.stage = "filled" =>
                  \A v \in {Reorder(Snapped(trace'.vsout, _fb_width, _fb_height))} :
                      /\ DOMAIN trace'.rhw = trace'.cov
                      /\ \A c \in trace'.cov :
                            /\ Areas(v, c).s # RZero
                            /\ RLt(RZero, trace'.rhw[c])
                            /\ \E j, k \in 1 .. 3 :
                                  /\ RLe(v[j].rhw, trace'.rhw[c])
                                  /\ RLe(trace'.rhw[c], v[k].rhw)
                            /\ _depth_buffer[c] = RZero => c \in trace'.pass
            /\ \A c \in DOMAIN _depth_buffer' : RLe(RZero, _depth_buffer'[c])
       ]_vars

\* a draw after Clear, of vertices with three different w, has covered pixels
\* and every fragment has passed the depth test with a depth > 0
FirstFragmentsPassed ==
    /\ Filled
    /\ ndraw = 1
    /\ trace.vsout[1][4] # trace.vsout[2][4]
    /\ trace.vsout[1][4] # trace.vsout[3][4]
    /\ trace.vsout[2][4] # trace.vsout[3][4]
    /\ Cardinality(trace.cov) >= 2
    /\ trace.pass = trace.cov
    /\ \A c \in trace.cov : RLt(RZero, _depth_buffer[c])

-----------------------------------------------------------------------------
(* Frame conditions *)

\* the pixels of the frame that the three DrawLine calls of the overlay of a
\* draw set: none with the wireframe off or without the vertex stage
WirePixels ==
    IF _render_frame /\ _frame_buffer # NULL /\ _vertex_shader # NULL
           /\ Accepted(trace'.vsout)
    THEN WirePoints(trace'.vsout, _fb_width, _fb_height)
             \cap Pixels(_fb_width, _fb_height)
    ELSE {}

\* C30 (frame condition of a draw): a draw changes a pixel of the frame buffer
\* only if the wireframe is on and one of the three DrawLine calls of the
\* overlay sets the pixel, or the pixel passes the coverage test and the depth
\* test of this triangle; it changes an entry of the depth buffer only in the
\* second case; it leaves the size, the render state, the two colours and the
\* two shaders.  SetVertexShader, SetPixelShader, SetBGColor, SetFGColor and
\* SetRenderState leave both buffers.
DrawFrameCondition ==
    [][/\ DrawStep =>
             /\ UNCHANGED <<_fb_width, _fb_height, _render_frame, _render_pixel,
                            _color_fg, _color_bg, _vertex_shader, _pixel_shader>>
             /\ trace'.pass \subseteq trace'.cov
             /\ IF _frame_buffer = NULL
                THEN _frame_buffer' = NULL /\ _depth_buffer' = _depth_buffer
                ELSE \A wire \in {WirePixels} :
                        /\ DOMAIN _frame_buffer'.bits = DOMAIN _frame_buffer.bits
                        /\ DOMAIN _depth_buffer' = DOMAIN _depth_buffer
                        /\ \A c \in Pixels(_fb_width, _fb_height) :
                              /\ _frame_buffer'.bits[c] # _frame_buffer.bits[c] =>
                                    c \in wire \/ c \in trace'.pass
                              /\ _depth_buffer'[c] # _depth_buffer[c] =>
                                    c \in trace'.pass
       /\ (trace'.op = "none" /\ ndraw' = ndraw) =>
             UNCHANGED <<_frame_buffer, _depth_buffer, _fb_width, _fb_height>>
    ]_vars

\* a second draw with the wireframe on has written fragments, has left a
\* covered pixel to the depth test and a pixel off the triangle as Clear left it
DrawnInPart ==
    /\ Filled
    /\ ndraw = 2
    /\ _render_frame
    /\ _color_fg # _color_bg
    /\ trace.pass # {}
    /\ trace.cov \ trace.pass # {}
    /\ \E c \in Pixels(_fb_width, _fb_height) :
          /\ c \notin trace.cov
          /\ c \notin WirePoints(trace.vsout, _fb_width, _fb_height)
          /\ _frame_buffer.bits[c] = _color_bg
    /\ \E c \in WirePoints(trace.vsout, _fb_width, _fb_height)
                  \cap Pixels(_fb_width, _fb_height) :
          c \notin trace.cov /\ _frame_buffer.bits[c] = _color_fg

\* a setter has been called between two draws that wrote fragments
SetBetweenDraws ==
    /\ trace.op = "none"
    /\ ndraw = 1
    /\ _depth_buffer # NULL
    /\ \E c \in DOMAIN _depth_buffer : _depth_buffer[c] # RZero

====
